---- MODULE Spec2Model ----
(***************************************************************************)
(* Verification model of the golf swing analyzers:                         *)
(*   apps/api/enhanced_golf_analyzer.py        (EnhancedGolfAnalyzer)      *)
(*   apps/api/src/python/pro_golf_analyzer.py  (ProGolfAnalyzer)           *)
(*   apps/api/src/python/advanced_golf_analyzer.py (AdvancedGolfAnalyzer)  *)
(*   apps/api/src/python/golf_analyzer.py      (GolfSwingAnalyzer)         *)
(*   apps/api/src/python/enhanced_golf_analyzer.py (YOLO+MediaPipe)        *)
(*                                                                         *)
(* Numbers are exact rationals [n, d]; d = 0 is the float NaN, so that     *)
(* comparisons with NaN are false as they are in Python.                   *)
(***************************************************************************)
EXTENDS Integers, Sequences, FiniteSets, TLC

VARIABLES
    score_call,   \* the pending scorer invocation: [fn, features, quality_info, components]
    score_ret,    \* the value the scorer returned, None before the call
    vote_input,   \* the attempts as they were before any vote
    vote_results, \* the list object handed to confidence_weighted_voting (updated in place)
    vote_ret,     \* the ConsensusResult of the latest call on vote_results
    vote_calls,   \* number of calls made on vote_results
    vote_shuffled,\* a copy of vote_input in another completion order, <<>> before it is voted
    shuffled_ret, \* the ConsensusResult of the call on vote_shuffled
    feat_call,    \* the pending extractor invocation: [fn, landmarks]
    feat_ret,     \* the feature dictionary the extractor returned, None before the call
    run_entry,    \* the program that runs: "api_enhanced", "py_enhanced", "advanced"
                  \* or "golf"
    run_input,    \* what the run is given: [source, payload, quality_level]
    run_pc,       \* "main", "scales" (inside multi_scale_processing), "vote", "done", "raised"
    run_stdout,   \* the JSON objects printed on standard output, in order
    run_detected, \* whether some pose-estimation attempt of the run returned landmarks
    run_open,     \* pose estimators constructed and not closed
    scale_ix,     \* multi_scale_processing: index of the scale being processed
    stage_ix,     \* multi_stage_detection: index of the threshold being tried
    best_result,  \* multi_stage_detection: best attempt of the current scale so far
    best_confidence,     \* multi_stage_detection: its confidence, 0 at first
    multi_scale_results, \* multi_scale_processing: the list handed to the voter
    phase_angles, \* the angles dictionary given to detect_swing_phase_ml
    phase_total,  \* its total_frames argument
    phase_frame,  \* the frame_num of the next call
    phases_returned, \* the phases returned so far, one per call, frame_num 0 first
    twin_phases,  \* the phases returned for the same progress and shoulder rotation
                  \* given as other arguments
    angle_history,   \* the analyzer's angle_history (a deque of angles dictionaries)
    last_result,     \* GolfSwingAnalyzer.last_result
    last_image_hash, \* GolfSwingAnalyzer.last_image_hash
    cache_images,    \* the images given to analyze_image on this analyzer, in order
    cache_returns,   \* what each of those calls returned
    video_input,     \* the video given to analyze_video_frames: [payload, fps, frames]
    video_pc,        \* "start", "read" (inside the frame loop), "done"
    frame_count,     \* analyze_video_frames: frames read so far
    video_landmarks, \* analyze_video_frames: its list all_landmarks
    video_angles,    \* analyze_video_frames: its list all_angles
    video_phases,    \* analyze_video_frames: its list swing_phases
    video_history,   \* the analyzer's angle_history while it analyses videos
    video_results,   \* what each analyze_video_frames call on video_input returned
    detector_stub,   \* a deterministic pose estimator for one frame: what it answers
                     \* at each scale (1..3) and each threshold (1..5)
    eval_order,      \* another order of evaluating the (scale, threshold) pairs
    attempts_ret,    \* [results |-> what multi_scale_processing returned], None
                     \* before the call
    reordered_ret,   \* the same evaluated in eval_order, None before
    assessed_image,  \* the image given to assess_image_quality: [w, h, laplacian_var,
                     \* mean_brightness]
    assessment,      \* the quality_info it returned, None before the call
    tempo_call,      \* the pending analyze_tempo_advanced invocation: [swing_phases, fps]
    tempo_ret,       \* the tempo dictionary it returned, None before the call
    angle_call,      \* the pending knee-angle computation: [analyzer, landmarks]
    angle_ret,       \* the knee angles and knee flex it gave, None before
    sample_frame_count, \* ProGolfAnalyzer.analyze_video: frame_count of the video
    sample_i,        \* the frame index the sampling loop is at
    sample_pc,       \* "loop" inside the sampling loop, "done" after it
    frames_analyzed,  \* the frame indices given to analyze_video_frame so far
    analyzer_kind,   \* for each concurrent video analysis, the analyzer that runs it
    video_given,     \* the video bytes each analysis was given
    analysis_pc,     \* "start", "written", "decoded", "done" for each analysis
    tmp_files,       \* the files under /tmp: path -> bytes, "absent" when there is none
    video_decoded,    \* the bytes each analysis decoded its frames from, "none" before
    golf_calls,      \* GolfSwingAnalyzer.analyze_image: calls made on the analyzer
    golf_pose,       \* the landmarks MediaPipe found in the image of the latest call,
                     \* <<>> when it found none
    golf_ret,        \* what the latest call returned, None before the first
    golf_last_result, \* the analyzer's last_result
    golf_last_hash    \* the analyzer's last_image_hash

scoreVars == <<score_call, score_ret>>
voteVars == <<vote_input, vote_results, vote_ret, vote_calls, vote_shuffled, shuffled_ret>>
featVars == <<feat_call, feat_ret>>
runVars == <<run_entry, run_input, run_pc, run_stdout, run_detected, run_open,
             scale_ix, stage_ix, best_result, best_confidence, multi_scale_results>>
phaseVars == <<phase_angles, phase_total, phase_frame, phases_returned, twin_phases,
               angle_history>>
cacheVars == <<last_result, last_image_hash, cache_images, cache_returns>>
videoVars == <<video_input, video_pc, frame_count, video_landmarks, video_angles,
               video_phases, video_history, video_results>>
detectVars == <<detector_stub, eval_order, attempts_ret, reordered_ret>>
qualityVars == <<assessed_image, assessment>>
tempoVars == <<tempo_call, tempo_ret>>
angleVars == <<angle_call, angle_ret>>
sampleVars == <<sample_frame_count, sample_i, sample_pc, frames_analyzed>>
concVars == <<analyzer_kind, video_given, analysis_pc, tmp_files, video_decoded>>
golfVars == <<golf_calls, golf_pose, golf_ret, golf_last_result, golf_last_hash>>
vars == <<golfVars, concVars, sampleVars, scoreVars, voteVars, featVars, runVars, phaseVars, cacheVars, videoVars,
          detectVars, qualityVars, tempoVars, angleVars>>

None == [none |-> TRUE]

\* A component that is not exercised sits in its idle state and stays there.
ScoreIdle == score_call = None /\ score_ret = None
VoteIdle ==
    /\ vote_input = <<>> /\ vote_results = <<>> /\ vote_ret = None /\ vote_calls = 0
    /\ vote_shuffled = <<>> /\ shuffled_ret = None
FeatIdle == feat_call = None /\ feat_ret = None
RunIdle ==
    /\ run_entry = "none" /\ run_pc = "idle" /\ run_stdout = <<>>
    /\ run_input = [source |-> "none", payload |-> "none", quality_level |-> "none"]
    /\ run_detected = FALSE /\ run_open = 0
    /\ scale_ix = 0 /\ stage_ix = 0 /\ best_result = None
    /\ best_confidence = [n |-> 0, d |-> 1] /\ multi_scale_results = <<>>
PhaseIdle ==
    /\ phase_angles = None /\ phase_total = 0 /\ phase_frame = 0
    /\ phases_returned = <<>> /\ twin_phases = <<>> /\ angle_history = <<>>
CacheIdle ==
    /\ last_result = None /\ last_image_hash = None
    /\ cache_images = <<>> /\ cache_returns = <<>>
VideoIdle ==
    /\ video_input = None /\ video_pc = "idle" /\ frame_count = 0
    /\ video_landmarks = <<>> /\ video_angles = <<>> /\ video_phases = <<>>
    /\ video_history = <<>> /\ video_results = <<>>
DetectIdle ==
    /\ detector_stub = <<>> /\ eval_order = None
    /\ attempts_ret = None /\ reordered_ret = None
QualityIdle == assessed_image = None /\ assessment = None
TempoIdle == tempo_call = None /\ tempo_ret = None
AngleIdle == angle_call = None /\ angle_ret = None
SampleIdle == sample_frame_count = 0 /\ sample_i = 0 /\ sample_pc = "idle" /\ frames_analyzed = <<>>
ConcIdle == analyzer_kind = <<>> /\ video_given = <<>> /\ analysis_pc = <<>> /\ tmp_files = <<>> /\ video_decoded = <<>>
GolfIdle ==
    /\ golf_calls = 0 /\ golf_pose = <<>> /\ golf_ret = None
    /\ golf_last_result = None /\ golf_last_hash = None

IdleExcept(g) ==
    /\ IF g = "golf" THEN TRUE ELSE GolfIdle
    /\ IF g = "conc" THEN TRUE ELSE ConcIdle
    /\ IF g = "sample" THEN TRUE ELSE SampleIdle
    /\ IF g = "angle" THEN TRUE ELSE AngleIdle
    /\ IF g = "tempo" THEN TRUE ELSE TempoIdle
    /\ IF g = "score" THEN TRUE ELSE ScoreIdle
    /\ IF g = "vote" THEN TRUE ELSE VoteIdle
    /\ IF g = "feat" THEN TRUE ELSE FeatIdle
    /\ IF g = "run" THEN TRUE ELSE RunIdle
    /\ IF g = "phase" THEN TRUE ELSE PhaseIdle
    /\ IF g = "cache" THEN TRUE ELSE CacheIdle
    /\ IF g = "video" THEN TRUE ELSE VideoIdle
    /\ IF g = "detect" THEN TRUE ELSE DetectIdle
    /\ IF g = "quality" THEN TRUE ELSE QualityIdle

UnchangedExcept(g) ==
    /\ IF g = "golf" THEN TRUE ELSE UNCHANGED golfVars
    /\ IF g = "conc" THEN TRUE ELSE UNCHANGED concVars
    /\ IF g = "sample" THEN TRUE ELSE UNCHANGED sampleVars
    /\ IF g = "angle" THEN TRUE ELSE UNCHANGED angleVars
    /\ IF g = "tempo" THEN TRUE ELSE UNCHANGED tempoVars
    /\ IF g = "score" THEN TRUE ELSE UNCHANGED scoreVars
    /\ IF g = "vote" THEN TRUE ELSE UNCHANGED voteVars
    /\ IF g = "feat" THEN TRUE ELSE UNCHANGED featVars
    /\ IF g = "run" THEN TRUE ELSE UNCHANGED runVars
    /\ IF g = "phase" THEN TRUE ELSE UNCHANGED phaseVars
    /\ IF g = "cache" THEN TRUE ELSE UNCHANGED cacheVars
    /\ IF g = "video" THEN TRUE ELSE UNCHANGED videoVars
    /\ IF g = "detect" THEN TRUE ELSE UNCHANGED detectVars
    /\ IF g = "quality" THEN TRUE ELSE UNCHANGED qualityVars

(***************************************************************************)
(* Float arithmetic, as exact rationals with NaN.                          *)
(***************************************************************************)
Abs(i) == IF i < 0 THEN -i ELSE i

RECURSIVE GCD(_, _)
GCD(a, b) == IF b = 0 THEN a ELSE GCD(b, a % b)

NaN == [n |-> 0, d |-> 0]

Norm(n, d) ==
    IF d = 0 THEN NaN
    ELSE LET g == GCD(Abs(n), Abs(d))
             s == IF d < 0 THEN -1 ELSE 1
         IN [n |-> (s * n) \div g, d |-> (s * d) \div g]

R(i) == [n |-> i, d |-> 1]

IsNaN(a) == a.d = 0

\* common factors are divided out before multiplying, to keep the integers small
RAdd(a, b) ==
    IF IsNaN(a) \/ IsNaN(b) THEN NaN
    ELSE LET g == GCD(a.d, b.d)
         IN Norm(a.n * (b.d \div g) + b.n * (a.d \div g), (a.d \div g) * b.d)
RSub(a, b) ==
    IF IsNaN(a) \/ IsNaN(b) THEN NaN
    ELSE LET g == GCD(a.d, b.d)
         IN Norm(a.n * (b.d \div g) - b.n * (a.d \div g), (a.d \div g) * b.d)
RMul(a, b) ==
    IF IsNaN(a) \/ IsNaN(b) THEN NaN
    ELSE LET g1 == GCD(Abs(a.n), b.d)
             g2 == GCD(Abs(b.n), a.d)
         IN Norm((a.n \div g1) * (b.n \div g2), (a.d \div g2) * (b.d \div g1))
RDiv(a, b) == IF IsNaN(a) \/ IsNaN(b) THEN NaN ELSE Norm(a.n * b.d, a.d * b.n)
RAbs(a)    == [n |-> Abs(a.n), d |-> a.d]

\* a < b, a <= b and a == b of Python floats: false when either side is NaN
RLt(a, b) == ~IsNaN(a) /\ ~IsNaN(b) /\ a.n * b.d < b.n * a.d
RLe(a, b) == ~IsNaN(a) /\ ~IsNaN(b) /\ a.n * b.d <= b.n * a.d
REq(a, b) == ~IsNaN(a) /\ ~IsNaN(b) /\ a = b

\* lo <= x <= hi with integer literals lo, hi
Between(lo, x, hi) == RLe(R(lo), x) /\ RLe(x, R(hi))

\* Python's builtin min(a, b) / max(a, b): the first argument unless the second is
\* strictly smaller / greater
PyMin_second(a, b) == b
PyMin(a, b) == IF RLt(b, a) THEN b ELSE a
PyMax(a, b) == IF RLt(a, b) THEN b ELSE a

RECURSIVE RSum(_)
RSum(s) == IF s = <<>> THEN R(0) ELSE RAdd(Head(s), RSum(Tail(s)))

\* np.mean of a list: NaN for the empty list
Mean(s) == RDiv(RSum(s), R(Len(s)))

(***************************************************************************)
(* Scorers                                                                 *)
(***************************************************************************)
x_factor_adjustment_wide(x_factor) ==
    IF Between(40, x_factor, 51) THEN 8
    ELSE IF Between(30, x_factor, 60) THEN 5
    ELSE IF Between(25, x_factor, 65) THEN 2
    ELSE -3
\* calculate_enhanced_score: what the X-factor adds to base_score
x_factor_adjustment(x_factor) ==
    IF Between(40, x_factor, 50) THEN 8
    ELSE IF Between(30, x_factor, 60) THEN 5
    ELSE IF Between(25, x_factor, 65) THEN 2
    ELSE -3

\* calculate_enhanced_score: what spine angle, knee flex, confidence and image
\* quality add to base_score
other_adjustments(features, quality_info) ==
    LET spine      == features.spine_angle
        knee       == features.knee_flex
        confidence == features.confidence
        sp == IF Between(20, spine, 30) THEN 6
              ELSE IF Between(15, spine, 35) THEN 3
              ELSE 0
        kn == IF Between(20, knee, 35) THEN 3 ELSE 0
        cf == IF RLt(Norm(9, 10), confidence) THEN 6
              ELSE IF RLt(Norm(8, 10), confidence) THEN 4
              ELSE IF RLt(Norm(7, 10), confidence) THEN 2
              ELSE 0
        ql == IF quality_info.quality_level = "high" THEN 3
              ELSE IF quality_info.quality_level = "medium" THEN 1
              ELSE 0
    IN sp + kn + cf + ql

\* EnhancedGolfAnalyzer.calculate_enhanced_score
calculate_enhanced_score(features, quality_info) ==
    LET base_score == 88 + x_factor_adjustment(features.x_factor)
                         + other_adjustments(features, quality_info)
    IN PyMax(R(78), PyMin(R(96), R(base_score)))

\* ProGolfAnalyzer.calculate_pro_score: the score component of the returned tuple
calculate_pro_score(features) ==
    LET ideal_x     == 45
        x_diff      == RAbs(RSub(features.x_factor, R(ideal_x)))
        ideal_spine == 25
        spine_diff  == RAbs(RSub(features.spine_angle, R(ideal_spine)))
        knee        == features.knee_flex
        weight      == features.weight_distribution
        xf == IF RLe(x_diff, R(5)) THEN 10
              ELSE IF RLe(x_diff, R(10)) THEN 5
              ELSE IF RLe(x_diff, R(20)) THEN -5
              ELSE -10
        sp == IF RLe(spine_diff, R(5)) THEN 5
              ELSE IF RLe(spine_diff, R(15)) THEN -3
              ELSE -7
        kn == IF Between(20, knee, 35) THEN 3
              ELSE IF RLt(knee, R(15)) THEN -5
              ELSE IF RLt(R(40), knee) THEN -5
              ELSE 0
        wt == IF RLe(Norm(9, 10), weight) /\ RLe(weight, Norm(11, 10)) THEN 3 ELSE -3
        hd == IF features.head_stability THEN 2 ELSE -5
        cf == IF RLt(Norm(9, 10), features.confidence) THEN 5
              ELSE IF RLt(Norm(8, 10), features.confidence) THEN 3
              ELSE 0
        score == 85 + xf + sp + kn + wt + hd + cf
    IN PyMax(R(70), PyMin(R(95), R(score)))

\* AdvancedGolfAnalyzer.calculate_weighted_score; components.phase_scores is the
\* list of the dict's values
calculate_weighted_score(components) ==
    LET phase == Mean(components.phase_scores)
        base_score ==
            RAdd(RAdd(RAdd(RAdd(R(0),
                RMul(phase, Norm(3, 10))),
                RMul(components.tempo_score, Norm(2, 10))),
                RMul(components.consistency_score, Norm(2, 10))),
                RMul(components.biomechanics_score, Norm(3, 10)))
        final_score == RSub(base_score, components.fault_penalty)
    IN PyMax(R(0), PyMin(R(100), final_score))

(***************************************************************************)
(* Scorer inputs: values on and around every band edge, extreme values     *)
(* and NaN.                                                                *)
(***************************************************************************)
Extreme == 100000

XFactorInputs ==
    {NaN, R(-Extreme), R(24), R(25), R(30), R(35), Norm(399, 10), R(40), R(45), R(50),
     Norm(501, 10), R(51), R(61), R(65), R(66), R(Extreme)}
SpineInputs   == {NaN, R(-Extreme), R(9), R(10), R(14), R(15), R(20), R(30), R(31), R(35), R(40), R(41), R(Extreme)}
KneeInputs    == {NaN, R(-Extreme), R(14), R(15), R(19), R(20), R(35), R(36), R(40), R(41), R(Extreme)}
ConfidenceInputs == {NaN, R(-Extreme), R(0), Norm(7, 10), Norm(71, 100), Norm(8, 10), Norm(81, 100),
                     Norm(9, 10), Norm(91, 100), R(1), R(Extreme)}
WeightInputs  == {NaN, R(-Extreme), Norm(89, 100), Norm(9, 10), R(1), Norm(11, 10), Norm(111, 100), R(Extreme)}
QualityLevels == {"low", "medium", "high"}
ScoreInputs   == {NaN, R(-Extreme), R(0), R(50), R(100), R(Extreme)}
PhaseScoreLists == {<<>>, <<R(0)>>, <<R(100)>>, <<R(100), R(75)>>, <<R(Extreme)>>, <<NaN, R(50)>>}
PenaltyInputs == {R(0), R(5), R(20), R(Extreme)}

EnhancedCalls ==
    [fn : {"calculate_enhanced_score"},
     features : [x_factor : XFactorInputs, spine_angle : SpineInputs, knee_flex : {R(19), R(20), NaN},
                 confidence : ConfidenceInputs],
     quality_info : [quality_level : QualityLevels]]

ProCalls ==
    [fn : {"calculate_pro_score"},
     features : [x_factor : {R(24), R(25), R(40), R(56), NaN, R(Extreme)},
                 spine_angle : {R(9), R(10), R(20), R(41), NaN, R(-Extreme)},
                 knee_flex : KneeInputs,
                 weight_distribution : {Norm(89, 100), R(1), NaN},
                 head_stability : BOOLEAN,
                 confidence : {Norm(8, 10), Norm(9, 10), R(1)}]]

WeightedCalls ==
    [fn : {"calculate_weighted_score"},
     components : [phase_scores : PhaseScoreLists, tempo_score : ScoreInputs,
                   consistency_score : {R(50), R(100), NaN},
                   biomechanics_score : ScoreInputs, fault_penalty : PenaltyInputs]]

ScoreInit ==
    /\ score_call \in EnhancedCalls \cup ProCalls \cup WeightedCalls
    /\ score_ret = None
    /\ IdleExcept("score")

CalculateEnhancedScore ==
    /\ score_ret = None
    /\ score_call.fn = "calculate_enhanced_score"
    /\ score_ret' = calculate_enhanced_score(score_call.features, score_call.quality_info)
    /\ UNCHANGED score_call
    /\ UnchangedExcept("score")

CalculateProScore ==
    /\ score_ret = None
    /\ score_call.fn = "calculate_pro_score"
    /\ score_ret' = calculate_pro_score(score_call.features)
    /\ UNCHANGED score_call
    /\ UnchangedExcept("score")

CalculateWeightedScore ==
    /\ score_ret = None
    /\ score_call.fn = "calculate_weighted_score"
    /\ score_ret' = calculate_weighted_score(score_call.components)
    /\ UNCHANGED score_call
    /\ UnchangedExcept("score")

ScoreNext == CalculateEnhancedScore \/ CalculateProScore \/ CalculateWeightedScore

SpecScore == ScoreInit /\ [][ScoreNext]_vars

\* C1: every scorer returns a score inside its configured bound, for every feature
\* vector with all fields present (extreme values and NaN included) and every
\* quality level: enhanced in [78,96], pro in [70,95], weighted in [0,100].
ScoreWithinBound ==
    score_ret # None =>
        /\ score_call.fn = "calculate_enhanced_score" => Between(78, score_ret, 96)
        /\ score_call.fn = "calculate_pro_score" => Between(70, score_ret, 95)
        /\ score_call.fn = "calculate_weighted_score" => Between(0, score_ret, 100)

\* a call whose unclamped sum leaves the bound has been scored
ScoreClampedReached ==
    /\ score_ret # None
    /\ \/ /\ score_call.fn = "calculate_enhanced_score"
          /\ score_call.features.x_factor = R(40)
          /\ score_call.features.spine_angle = R(20)
          /\ score_call.features.confidence = R(1)
          /\ score_ret = R(96)
       \/ /\ score_call.fn = "calculate_weighted_score"
          /\ score_call.components.fault_penalty = R(Extreme)
          /\ score_ret = R(0)

\* C17: calculate_enhanced_score adds the maximum X-factor bonus, 8, exactly when
\* 40 <= x_factor <= 50 (so for x_factor 45), and a strictly smaller adjustment for
\* every other value; the score returned is the clamped sum with that adjustment
MaxBonusExactlyInIdealBand ==
    (score_ret # None /\ score_call.fn = "calculate_enhanced_score") =>
        LET x_factor == score_call.features.x_factor
            adjustment == x_factor_adjustment(x_factor)
        IN /\ adjustment = 8 <=> Between(40, x_factor, 50)
           /\ ~Between(40, x_factor, 50) => adjustment < 8
           /\ score_ret = PyMax(R(78), PyMin(R(96),
                  R(88 + adjustment
                       + other_adjustments(score_call.features, score_call.quality_info))))

\* the consensus of scenario B (x_factor 45) has been scored with nothing else
\* adding to the base score: 88 + 8
IdealXFactorScored ==
    /\ score_ret = R(96)
    /\ score_call.fn = "calculate_enhanced_score"
    /\ score_call.features.x_factor = R(45)
    /\ other_adjustments(score_call.features, score_call.quality_info) = 0

(***************************************************************************)
(* Confidence-weighted voter (apps/api/enhanced_golf_analyzer.py)          *)
(***************************************************************************)
\* round(x, digits) of a numpy float: scale, round half to even, unscale
Rint(x) ==
    LET f == x.n \div x.d
        twice == 2 * (x.n - f * x.d)
    IN IF twice < x.d THEN f
       ELSE IF twice > x.d THEN f + 1
       ELSE IF f % 2 = 0 THEN f ELSE f + 1

Round3(x) == IF IsNaN(x) THEN NaN ELSE Norm(Rint(RMul(x, R(1000))), 1000)

angle_keys == {"shoulder_rotation", "hip_rotation", "x_factor", "spine_angle", "knee_flex"}

\* sum(r['features']['confidence'] for r in results)
total_weight(results) == RSum([i \in 1..Len(results) |-> results[i].features.confidence])

\* max(results, key=confidence): the index of the first element that no later
\* element strictly exceeds
RECURSIVE MaxByConfidence(_, _, _)
MaxByConfidence(results, best, i) ==
    IF i > Len(results) THEN best
    ELSE IF RLt(results[best].features.confidence, results[i].features.confidence)
         THEN MaxByConfidence(results, i, i + 1)
         ELSE MaxByConfidence(results, best, i + 1)

best_index(results) == MaxByConfidence(results, 1, 2)

unweighted_angle(results, key) ==
    RDiv(RSum([i \in 1..Len(results) |-> results[i].features[key]]), R(Len(results)))
weighted_angle(results, key) ==
    RDiv(RSum([i \in 1..Len(results) |->
                 RMul(results[i].features[key], results[i].features.confidence)]),
         total_weight(results))

\* best_result after features.update(weighted_angles) and the voting_info assignment
updated_best(results) ==
    LET b == results[best_index(results)]
    IN [b EXCEPT
          !.features = [k \in DOMAIN b.features |->
                          IF k \in angle_keys THEN weighted_angle(results, k)
                          ELSE b.features[k]],
          !.voting_info = [num_results  |-> Len(results),
                           total_weight |-> Round3(total_weight(results)),
                           scales_used  |-> [i \in 1..Len(results) |-> results[i].scale],
                           stages_used  |-> [i \in 1..Len(results) |-> results[i].stage]]]

voting_without_zero_check(results) == IF results = <<>> THEN None ELSE updated_best(results)

\* the value confidence_weighted_voting returns
confidence_weighted_voting(results) ==
    IF results = <<>> THEN None
    ELSE IF REq(total_weight(results), R(0)) THEN results[1]
    ELSE updated_best(results)

\* the caller's list after the call: best_result is an element of it, updated in place
results_after_voting(results) ==
    IF results = <<>> \/ REq(total_weight(results), R(0)) THEN results
    ELSE [results EXCEPT ![best_index(results)] = updated_best(results)]

confidence_thresholds == <<Norm(1, 10), Norm(15, 100), Norm(2, 10), Norm(25, 100), Norm(3, 10)>>
scales == <<Norm(8, 10), R(1), Norm(12, 10)>>
NumScales == 3
MaxVoteCalls == 2

\* an attempt as multi_scale_processing appends it
Attempt(features, stage, scaleIx) ==
    [features |-> features, threshold_used |-> confidence_thresholds[stage],
     stage |-> stage, scale |-> scales[scaleIx], voting_info |-> None]

VoteAngleProfiles ==
    {[shoulder_rotation |-> R(90), hip_rotation |-> R(45), x_factor |-> R(45),
      spine_angle |-> R(25), knee_flex |-> R(30)],
     [shoulder_rotation |-> R(0), hip_rotation |-> R(45), x_factor |-> R(45),
      spine_angle |-> R(10), knee_flex |-> R(0)]}
VoteConfidences == {R(0), Norm(1, 2), Norm(9, 10)}
VoteFeatures ==
    {[shoulder_rotation |-> a.shoulder_rotation, hip_rotation |-> a.hip_rotation,
      x_factor |-> a.x_factor, spine_angle |-> a.spine_angle, knee_flex |-> a.knee_flex,
      confidence |-> c] : a \in VoteAngleProfiles, c \in VoteConfidences}
VoteAttempts ==
    {Attempt(f, id[1], id[2]) : f \in VoteFeatures, id \in {<<2, 1>>, <<1, 2>>}}

Perms(n) == {p \in [1..n -> 1..n] : \A i, j \in 1..n : p[i] = p[j] => i = j}

VoteInit ==
    /\ \E n \in 1..NumScales : vote_input \in [1..n -> VoteAttempts]
    /\ vote_results = vote_input
    /\ vote_ret = None
    /\ vote_calls = 0
    /\ vote_shuffled = <<>>
    /\ shuffled_ret = None
    /\ IdleExcept("vote")

\* final_result = self.confidence_weighted_voting(results)
Vote ==
    /\ vote_calls < MaxVoteCalls
    /\ vote_ret' = confidence_weighted_voting(vote_results)
    /\ vote_results' = results_after_voting(vote_results)
    /\ vote_calls' = vote_calls + 1
    /\ UNCHANGED <<vote_input, vote_shuffled, shuffled_ret>>
    /\ UnchangedExcept("vote")

\* the same attempts, completed in another order, voted on their own
VoteShuffled ==
    /\ vote_shuffled = <<>>
    /\ \E p \in Perms(Len(vote_input)) :
         LET copy == [i \in 1..Len(vote_input) |-> vote_input[p[i]]]
         IN /\ shuffled_ret' = confidence_weighted_voting(copy)
            /\ vote_shuffled' = results_after_voting(copy)
    /\ UNCHANGED <<vote_input, vote_results, vote_ret, vote_calls>>
    /\ UnchangedExcept("vote")

VoteNext == Vote \/ VoteShuffled

SpecVote == VoteInit /\ [][VoteNext]_vars

SameConsensus(a, b) ==
    /\ a.features = b.features
    /\ a.scale = b.scale
    /\ a.threshold_used = b.threshold_used
    /\ a.stage = b.stage

\* C2: consensus fusion is order-independent: voting any permutation of a non-empty
\* attempt list returns the same fused angles, confidence and scale / threshold /
\* stage identity as voting the list itself.
ConsensusOrderIndependent ==
    (vote_calls = 1 /\ vote_shuffled # <<>>) => SameConsensus(vote_ret, shuffled_ret)

InputWeight == total_weight(vote_input)
InputMaxConfidence(c) ==
    /\ \E i \in 1..Len(vote_input) : vote_input[i].features.confidence = c
    /\ \A i \in 1..Len(vote_input) : RLe(vote_input[i].features.confidence, c)

\* C4: with positive total confidence every consensus angle is
\* sum(value*confidence)/sum(confidence) over all attempts, and the consensus carries
\* the scale / threshold / stage of an attempt of maximal confidence.
ConsensusIsWeightedMean ==
    (vote_calls = 1 /\ RLt(R(0), InputWeight)) =>
        /\ \A k \in angle_keys :
             RMul(vote_ret.features[k], InputWeight) =
                 RSum([i \in 1..Len(vote_input) |->
                         RMul(vote_input[i].features[k], vote_input[i].features.confidence)])
        /\ \E i \in 1..Len(vote_input) :
             /\ InputMaxConfidence(vote_input[i].features.confidence)
             /\ vote_ret.scale = vote_input[i].scale
             /\ vote_ret.threshold_used = vote_input[i].threshold_used
             /\ vote_ret.stage = vote_input[i].stage

\* three attempts of different confidence and different angles have been fused
WeightedMeanReached ==
    /\ vote_calls = 1
    /\ Len(vote_input) = 3
    /\ vote_input[1].features.confidence = Norm(1, 2)
    /\ vote_input[2].features.confidence = Norm(9, 10)
    /\ vote_input[3].features.confidence = R(0)
    /\ vote_input[1].features.shoulder_rotation # vote_input[2].features.shoulder_rotation
    /\ vote_ret.stage = vote_input[2].stage
    /\ vote_ret.features.shoulder_rotation = Norm(225, 7)

SinglePositiveReached ==
    /\ vote_calls = 1
    /\ Len(vote_input) = 1
    /\ vote_input[1].features.confidence = Norm(9, 10)
    /\ vote_ret.voting_info # None

(***************************************************************************)
(* Feature extractors.  A landmark is [x, y, z, visibility]; x, y and z    *)
(* count steps of Unit (1/20 of the normalized frame), so that vectors,    *)
(* dot products and squared norms are integers.  math.atan2 and arccos are *)
(* tabulated in hundredths of a degree for the vectors the sample poses    *)
(* produce: Atan2Table[<<dy, dx>>], and Acos*Table[<<dot, q>>] where dot   *)
(* is the dot product and q the product of the squared norms.              *)
(***************************************************************************)
Unit == Norm(1, 20)

Atan2Table ==
    <<-10, -4>> :> -11180 @@
    <<-10, -2>> :> -10131 @@
    <<-10, 0>> :> -9000 @@
    <<-10, 2>> :> -7869 @@
    <<-10, 4>> :> -6820 @@
    <<-8, -4>> :> -11657 @@
    <<-8, -2>> :> -10404 @@
    <<-8, 0>> :> -9000 @@
    <<-8, 2>> :> -7596 @@
    <<-8, 4>> :> -6343 @@
    <<-6, -4>> :> -12369 @@
    <<-6, -2>> :> -10843 @@
    <<-6, 0>> :> -9000 @@
    <<-6, 2>> :> -7157 @@
    <<-6, 4>> :> -5631 @@
    <<-4, -4>> :> -13500 @@
    <<-4, -2>> :> -11657 @@
    <<-4, 0>> :> -9000 @@
    <<-4, 2>> :> -6343 @@
    <<-4, 4>> :> -4500 @@
    <<0, -4>> :> 18000 @@
    <<0, 0>> :> 0 @@
    <<0, 4>> :> 0 @@
    <<0, 6>> :> 0 @@
    <<0, 8>> :> 0 @@
    <<0, 10>> :> 0 @@
    <<2, 4>> :> 2657 @@
    <<2, 6>> :> 1843 @@
    <<2, 8>> :> 1404 @@
    <<2, 10>> :> 1131 @@
    <<4, -4>> :> 13500 @@
    <<4, 0>> :> 9000 @@
    <<4, 4>> :> 4500 @@
    <<4, 6>> :> 3369 @@
    <<4, 8>> :> 2657 @@
    <<4, 10>> :> 2180

AcosTable ==
    <<-32, 1024>> :> 18000 @@
    <<-32, 1280>> :> 15343 @@
    <<-32, 1536>> :> 14474 @@
    <<-32, 2048>> :> 13500 @@
    <<-16, 256>> :> 18000 @@
    <<-16, 512>> :> 13500 @@
    <<-16, 768>> :> 12526 @@
    <<-16, 1024>> :> 12000 @@
    <<-16, 2560>> :> 10843 @@
    <<0, 256>> :> 9000 @@
    <<0, 512>> :> 9000 @@
    <<0, 1024>> :> 9000 @@
    <<0, 1536>> :> 9000 @@
    <<16, 256>> :> 0 @@
    <<16, 512>> :> 4500 @@
    <<16, 768>> :> 5474 @@
    <<16, 1024>> :> 6000 @@
    <<32, 1024>> :> 0 @@
    <<32, 1536>> :> 3526

AcosEps3Table ==
    <<-80, 6400>> :> 17428 @@
    <<-80, 12800>> :> 13480 @@
    <<0, 0>> :> 9000 @@
    <<0, 6400>> :> 9000 @@
    <<80, 6400>> :> 572 @@
    <<80, 8000>> :> 2707 @@
    <<80, 9600>> :> 3559 @@
    <<80, 12800>> :> 4520 @@
    <<80, 14400>> :> 4836 @@
    <<120, 14400>> :> 467 @@
    <<120, 16000>> :> 1897 @@
    <<120, 17600>> :> 2560 @@
    <<120, 20800>> :> 3393 @@
    <<120, 22400>> :> 3690 @@
    <<160, 25600>> :> 405 @@
    <<160, 27200>> :> 1458 @@
    <<160, 28800>> :> 1985 @@
    <<160, 32000>> :> 2682 @@
    <<160, 33600>> :> 2943 @@
    <<200, 40000>> :> 362 @@
    <<200, 41600>> :> 1186 @@
    <<200, 43200>> :> 1618 @@
    <<200, 46400>> :> 2207 @@
    <<200, 48000>> :> 2433

\* math.degrees(math.atan2(dy, dx))
Atan2Deg(dy, dx) == Norm(Atan2Table[<<dy, dx>>], 100)

Dot(v, w) == v[1] * w[1] + v[2] * w[2] + v[3] * w[3]
NormSq(v) == Dot(v, v)

\* degrees(arccos(clip(dot(v, w) / (norm(v) * norm(w)), -1, 1))): 0/0 is nan,
\* clip and arccos keep nan
AcosDeg(v, w) ==
    LET q == NormSq(v) * NormSq(w)
    IN IF q = 0 THEN NaN ELSE Norm(AcosTable[<<Dot(v, w), q>>], 100)

\* the same with + 0.001 in the denominator: never nan, never exactly 0
AcosEps3Deg(v, w) == Norm(AcosEps3Table[<<Dot(v, w), NormSq(v) * NormSq(w)>>], 100)

Vec2(a, b) == <<a.x - b.x, a.y - b.y, 0>>
Vec3(a, b) == <<a.x - b.x, a.y - b.y, a.z - b.z>>

\* EnhancedGolfAnalyzer.calculate_angle_3points: no exception is raised by a
\* zero-length vector, so the default of the except branch is not taken
calculate_angle_3points(point1, point2, point3) ==
    AcosDeg(Vec2(point1, point2), Vec2(point3, point2))

\* EnhancedGolfAnalyzer.extract_golf_features
extract_golf_features(landmarks) ==
    LET left_shoulder == landmarks[11]
        right_shoulder == landmarks[12]
        left_hip == landmarks[23]
        right_hip == landmarks[24]
        left_knee == landmarks[25]
        right_knee == landmarks[26]
        left_ankle == landmarks[27]
        right_ankle == landmarks[28]
        shoulder_rotation == Atan2Deg(right_shoulder.y - left_shoulder.y,
                                      right_shoulder.x - left_shoulder.x)
        hip_rotation == Atan2Deg(right_hip.y - left_hip.y, right_hip.x - left_hip.x)
        mid_shoulder_x == (left_shoulder.x + right_shoulder.x) \div 2
        mid_shoulder_y == (left_shoulder.y + right_shoulder.y) \div 2
        mid_hip_x == (left_hip.x + right_hip.x) \div 2
        mid_hip_y == (left_hip.y + right_hip.y) \div 2
        left_knee_angle == calculate_angle_3points(left_hip, left_knee, left_ankle)
        right_knee_angle == calculate_angle_3points(right_hip, right_knee, right_ankle)
        key_landmarks == <<left_shoulder, right_shoulder, left_hip, right_hip,
                           left_knee, right_knee>>
    IN [shoulder_rotation |-> shoulder_rotation,
        hip_rotation |-> hip_rotation,
        x_factor |-> RAbs(RSub(shoulder_rotation, hip_rotation)),
        spine_angle |-> Atan2Deg(Abs(mid_shoulder_x - mid_hip_x),
                                 Abs(mid_hip_y - mid_shoulder_y)),
        knee_flex |-> RSub(R(180), RDiv(RAdd(left_knee_angle, right_knee_angle), R(2))),
        confidence |-> Mean([i \in 1..6 |-> key_landmarks[i].visibility])]

LandmarkIds == <<11, 12, 23, 24, 25, 26, 27, 28>>

\* ProGolfAnalyzer.analyze_video_frame, after pose_video.process found landmarks
analyze_video_frame(landmarks) ==
    LET left_shoulder == landmarks[11]
        right_shoulder == landmarks[12]
        left_hip == landmarks[23]
        right_hip == landmarks[24]
        shoulder_rotation == Atan2Deg(right_shoulder.y - left_shoulder.y,
                                      right_shoulder.x - left_shoulder.x)
        hip_rotation == Atan2Deg(right_hip.y - left_hip.y, right_hip.x - left_hip.x)
    IN [shoulder_rotation |-> shoulder_rotation,
        hip_rotation |-> hip_rotation,
        x_factor |-> RAbs(RSub(shoulder_rotation, hip_rotation)),
        confidence |-> Mean([i \in 1..Len(LandmarkIds) |->
                                landmarks[LandmarkIds[i]].visibility]),
        frame_valid |-> TRUE]

\* AdvancedGolfAnalyzer keeps landmarks in a dict keyed by 'pose_<i>';
\* landmarks.get('pose_<i>', {}).get(c, 0) reads 0 for a landmark that is absent
Has(landmarks, i) == i \in DOMAIN landmarks
Get(landmarks, i) ==
    IF Has(landmarks, i) THEN landmarks[i] ELSE [x |-> 0, y |-> 0, z |-> 0]

\* AdvancedGolfAnalyzer.estimate_camera_angle
estimate_camera_angle(landmarks) ==
    LET z_diff == Abs(Get(landmarks, 11).z - Get(landmarks, 12).z)
    IN RMul(RMul(R(z_diff), Unit), R(50))

\* AdvancedGolfAnalyzer.calculate_shoulder_rotation_3d
calculate_shoulder_rotation_3d(landmarks) ==
    LET shoulder_vector == Vec3(Get(landmarks, 12), Get(landmarks, 11))
        hip_vector == Vec3(Get(landmarks, 24), Get(landmarks, 23))
    IN RAdd(AcosDeg(shoulder_vector, hip_vector), estimate_camera_angle(landmarks))

\* AdvancedGolfAnalyzer.calculate_hip_rotation_3d; reference is (1, 0, 0)
calculate_hip_rotation_3d(landmarks) ==
    IF Has(landmarks, 23) /\ Has(landmarks, 24) /\ Has(landmarks, 25)
    THEN AcosEps3Deg(Vec3(Get(landmarks, 24), Get(landmarks, 23)), <<20, 0, 0>>)
    ELSE R(45)

\* AdvancedGolfAnalyzer.calculate_spine_angle_corrected; vertical is (0, -1, 0)
calculate_spine_angle_corrected(landmarks) ==
    IF Has(landmarks, 11) /\ Has(landmarks, 12) /\ Has(landmarks, 23) /\ Has(landmarks, 24)
    THEN LET ls == landmarks[11]
             rs == landmarks[12]
             lh == landmarks[23]
             rh == landmarks[24]
             spine_vector == <<(ls.x + rs.x) \div 2 - (lh.x + rh.x) \div 2,
                               (ls.y + rs.y) \div 2 - (lh.y + rh.y) \div 2,
                               (ls.z + rs.z) \div 2 - (lh.z + rh.z) \div 2>>
         IN AcosEps3Deg(spine_vector, <<0, -20, 0>>)
    ELSE R(30)

\* AdvancedGolfAnalyzer.calculate_advanced_angles (the club and wrist angles,
\* which read other landmarks, are left out of the dictionary)
calculate_advanced_angles(landmarks) ==
    LET shoulder_rotation == calculate_shoulder_rotation_3d(landmarks)
        hip_rotation == calculate_hip_rotation_3d(landmarks)
    IN [shoulder_rotation |-> shoulder_rotation,
        hip_rotation |-> hip_rotation,
        x_factor |-> RSub(shoulder_rotation, hip_rotation),
        spine_angle |-> calculate_spine_angle_corrected(landmarks)]

\* Sample poses: every coordinate is an even number of Units
Point(x, y, z, v) == [x |-> x, y |-> y, z |-> z, visibility |-> v]
Visibilities == {R(0), Norm(1, 2), Norm(9, 10)}
AnklePositions == {<<6, 26>>, <<6, 22>>, <<10, 26>>}

SamplePose(lsx, lsy, lsz, rsx, rsy, lhx, rhx, rhy, la, v) ==
    (11 :> Point(lsx, lsy, lsz, v)) @@ (12 :> Point(rsx, rsy, 0, v)) @@
    (23 :> Point(lhx, 14, 0, v)) @@ (24 :> Point(rhx, rhy, 0, v)) @@
    (25 :> Point(6, 22, 0, v)) @@ (26 :> Point(10, 22, 0, v)) @@
    (27 :> Point(la[1], la[2], 0, R(1))) @@ (28 :> Point(10, 26, 0, R(1)))

SampleLandmarks ==
    {SamplePose(lsx, lsy, lsz, rsx, rsy, lhx, rhx, rhy, la, v) :
        lsx \in {6, 10}, lsy \in {6, 10}, lsz \in {0, 4}, rsx \in {6, 10}, rsy \in {6, 10},
        lhx \in {6, 10}, rhx \in {6, 10}, rhy \in {14, 18},
        la \in AnklePositions, v \in Visibilities}

\* what extract_landmarks yields when Holistic found no pose
NoPoseLandmarks == <<>>

FeatInit ==
    /\ \/ feat_call \in [fn : {"extract_golf_features", "analyze_video_frame",
                               "calculate_advanced_angles"},
                         landmarks : SampleLandmarks]
       \/ feat_call = [fn |-> "calculate_advanced_angles", landmarks |-> NoPoseLandmarks]
    /\ feat_ret = None
    /\ IdleExcept("feat")

ExtractGolfFeatures ==
    /\ feat_ret = None
    /\ feat_call.fn = "extract_golf_features"
    /\ feat_ret' = extract_golf_features(feat_call.landmarks)
    /\ UNCHANGED feat_call
    /\ UnchangedExcept("feat")

AnalyzeVideoFrame ==
    /\ feat_ret = None
    /\ feat_call.fn = "analyze_video_frame"
    /\ feat_ret' = analyze_video_frame(feat_call.landmarks)
    /\ UNCHANGED feat_call
    /\ UnchangedExcept("feat")

CalculateAdvancedAngles ==
    /\ feat_ret = None
    /\ feat_call.fn = "calculate_advanced_angles"
    /\ feat_ret' = calculate_advanced_angles(feat_call.landmarks)
    /\ UNCHANGED feat_call
    /\ UnchangedExcept("feat")

FeatNext == ExtractGolfFeatures \/ AnalyzeVideoFrame \/ CalculateAdvancedAngles

SpecFeat == FeatInit /\ [][FeatNext]_vars

\* a pose whose shoulder line has no length makes the 3D shoulder rotation nan; such
\* a pose is not held against the extractor here
XFactorIsAbs(f) ==
    IsNaN(f.x_factor) \/ f.x_factor = RAbs(RSub(f.shoulder_rotation, f.hip_rotation))

\* C3: every extractor returns x_factor equal to the absolute difference of the
\* shoulder_rotation and hip_rotation it returns
XFactorIsAbsDifference == feat_ret # None => XFactorIsAbs(feat_ret)

\* the two image-plane extractors do; the 3D extractor is the one that does not
ImageExtractorsXFactorIsAbs ==
    (feat_ret # None /\ feat_call.fn # "calculate_advanced_angles") => XFactorIsAbs(feat_ret)

\* the 3D extractor returns a negative x_factor when the hips are rotated further
AdvancedNegativeXFactor ==
    /\ feat_ret # None
    /\ feat_call.fn = "calculate_advanced_angles"
    /\ RLt(feat_ret.x_factor, R(0))

(***************************************************************************)
(* The YOLO + MediaPipe analyzer (src/python/enhanced_golf_analyzer.py).   *)
(***************************************************************************)
\* int(x) of a float: truncation toward zero
Trunc(x) == IF x.n >= 0 THEN x.n \div x.d ELSE -((-x.n) \div x.d)

\* round(x, 1)
Round1(x) == IF IsNaN(x) THEN NaN ELSE Norm(Rint(RMul(x, R(10))), 10)

\* EnhancedGolfAnalyzer.extract_golf_features(landmarks, confidence) of the YOLO
\* analyzer (grip_height and grip_width, which nothing reads, are left out)
yolo_extract_golf_features(landmarks, confidence) ==
    LET left_shoulder == landmarks[11]
        right_shoulder == landmarks[12]
        left_hip == landmarks[23]
        right_hip == landmarks[24]
        left_knee == landmarks[25]
        right_knee == landmarks[26]
        left_ankle == landmarks[27]
        right_ankle == landmarks[28]
        shoulder_angle == Atan2Deg(right_shoulder.y - left_shoulder.y,
                                   right_shoulder.x - left_shoulder.x)
        hip_angle == Atan2Deg(right_hip.y - left_hip.y, right_hip.x - left_hip.x)
        shoulder_center_x == (left_shoulder.x + right_shoulder.x) \div 2
        shoulder_center_y == (left_shoulder.y + right_shoulder.y) \div 2
        hip_center_x == (left_hip.x + right_hip.x) \div 2
        hip_center_y == (left_hip.y + right_hip.y) \div 2
        spine_angle == RSub(Atan2Deg(shoulder_center_y - hip_center_y,
                                     shoulder_center_x - hip_center_x), R(90))
        stance_width == RMul(R(Abs(left_ankle.x - right_ankle.x)), Unit)
    IN [shoulder_angle |-> shoulder_angle,
        hip_angle |-> hip_angle,
        x_factor |-> RAbs(RSub(shoulder_angle, hip_angle)),
        spine_angle |-> RAbs(spine_angle),
        stance_width |-> RMul(stance_width, R(100)),
        weight_distribution |-> Norm(left_knee.y + left_ankle.y,
                                     right_knee.y + right_ankle.y),
        confidence |-> confidence,
        landmarks_count |-> Len(LandmarkIds)]

\* EnhancedGolfAnalyzer.calculate_advanced_score of the YOLO analyzer: the score
\* (the feedback texts are not modelled)
calculate_advanced_score(features) ==
    LET x_factor == features.x_factor
        spine_angle == features.spine_angle
        stance == features.stance_width
        weight == features.weight_distribution
        s0 == RSub(R(85), RMul(RSub(R(1), features.confidence), R(10)))
        s1 == IF RLt(x_factor, R(30)) THEN RSub(s0, R(10))
              ELSE IF RLt(R(70), x_factor) THEN RSub(s0, R(5))
              ELSE IF Between(40, x_factor, 60) THEN RAdd(s0, R(5))
              ELSE s0
        s2 == IF RLt(spine_angle, R(10)) THEN RSub(s1, R(7))
              ELSE IF RLt(R(40), spine_angle) THEN RSub(s1, R(7))
              ELSE IF Between(15, spine_angle, 35) THEN RAdd(s1, R(3))
              ELSE s1
        s3 == IF RLt(stance, R(15)) THEN RSub(s2, R(8))
              ELSE IF RLt(R(35), stance) THEN RSub(s2, R(8))
              ELSE IF Between(20, stance, 30) THEN RAdd(s2, R(2))
              ELSE s2
        s4 == IF RLt(weight, Norm(8, 10)) \/ RLt(Norm(12, 10), weight)
              THEN RSub(s3, R(5)) ELSE s3
    IN Trunc(PyMax(R(60), PyMin(R(95), s4)))

(***************************************************************************)
(* AdvancedGolfAnalyzer fault detection.                                   *)
(***************************************************************************)
\* dict.get(key, default)
GetField(d, key, default) == IF key \in DOMAIN d THEN d[key] ELSE default

\* [all_angles[i] for i, p in enumerate(swing_phases) if p in phases]
AnglesOfPhases(all_angles, swing_phases, phases) ==
    LET RECURSIVE Pick(_)
        Pick(i) == IF i > Len(swing_phases) THEN <<>>
                   ELSE IF swing_phases[i] \in phases
                        THEN <<all_angles[i]>> \o Pick(i + 1)
                        ELSE Pick(i + 1)
    IN Pick(1)

\* max(list) as Python folds it
RECURSIVE PyMaxSeq(_)
PyMaxSeq(s) == IF Len(s) = 1 THEN s[1]
               ELSE PyMax(PyMaxSeq(SubSeq(s, 1, Len(s) - 1)), s[Len(s)])

Fault(type, severity) == [type |-> type, severity |-> severity]

\* AdvancedGolfAnalyzer.detect_advanced_faults; lateral_movement is the value
\* check_lateral_movement draws with np.random.uniform(0, 0.15)
detect_advanced_faults(all_angles, swing_phases, lateral_movement) ==
    LET top_angles == AnglesOfPhases(all_angles, swing_phases, {"top"})
        impact_angles == AnglesOfPhases(all_angles, swing_phases, {"impact"})
        address_angles == AnglesOfPhases(all_angles, swing_phases, {"address"})
        backswing_angles == AnglesOfPhases(all_angles, swing_phases, {"backswing"})
        transition_angles ==
            AnglesOfPhases(all_angles, swing_phases, {"transition", "downswing"})
        max_shoulder ==
            PyMaxSeq([i \in 1..Len(top_angles) |->
                         GetField(top_angles[i], "shoulder_rotation", R(0))])
        over_swing ==
            IF top_angles # <<>> /\ RLt(R(110), max_shoulder)
            THEN <<Fault("over_swing", "medium")>> ELSE <<>>
        early_extension ==
            IF \E i \in 1..Len(impact_angles) :
                   RLt(R(10), RAbs(RSub(GetField(impact_angles[i], "spine_angle", R(30)),
                                        R(30))))
            THEN <<Fault("early_extension", "high")>> ELSE <<>>
        sway ==
            IF address_angles # <<>> /\ backswing_angles # <<>>
               /\ RLt(Norm(1, 10), lateral_movement)
            THEN <<Fault("sway", "high")>> ELSE <<>>
        casting ==
            IF \E i \in 1..Len(transition_angles) :
                   RLt(GetField(transition_angles[i], "wrist_hinge", R(90)), R(70))
            THEN <<Fault("casting", "high")>> ELSE <<>>
    IN over_swing \o early_extension \o sway \o casting

(***************************************************************************)
(* Program runs.  A run is one process: it reads its input, analyses it    *)
(* and prints.  The pose estimator is a collaborator: each time it is      *)
(* asked it returns no landmarks, raises, or returns one of PipePoses.     *)
(***************************************************************************)
\* two poses of confidence 0.9 with different angles, one of 0.5, one of 0
PipePoses ==
    {SamplePose(6, 6, 0, 10, 6, 6, 10, 18, <<6, 26>>, Norm(9, 10)),
     SamplePose(6, 6, 0, 10, 10, 6, 10, 14, <<6, 26>>, Norm(9, 10)),
     SamplePose(6, 6, 0, 10, 6, 6, 10, 18, <<6, 26>>, Norm(1, 2)),
     SamplePose(6, 6, 0, 10, 6, 6, 10, 18, <<6, 26>>, R(0))}

CollaboratorOutcomes ==
    {[kind |-> "none"], [kind |-> "raise"]}
        \cup {[kind |-> "landmarks", landmarks |-> l] : l \in PipePoses}

\* error texts of the result objects (the Korean literals are rendered in English)
ERR_BASE64 == "Base64 decoding failed: Incorrect padding"
ERR_IMAGE == "image decoding failed or empty image"
ERR_NOT_DETECTED == "Enhanced AI did not detect a golf posture at any scale"
ERR_VOTE == "error in the voting step"

ApiInputs ==
    {[source |-> "missing_file", payload |-> "none", quality_level |-> "none"]}
        \cup [source : {"file", "stdin"}, payload : {"bad_base64", "not_image"},
              quality_level : {"none"}]
        \cup [source : {"file", "stdin"}, payload : {"image"}, quality_level : QualityLevels]

\* the result analyze_enhanced builds after the voting (lines 380-427)
enhanced_result(results, quality_info) ==
    LET final_result == confidence_weighted_voting(results)
        features == final_result.features
    IN IF final_result = None THEN [success |-> FALSE, error |-> ERR_VOTE]
       ELSE [success |-> TRUE, detected |-> TRUE, enhanced |-> TRUE,
             score |-> calculate_enhanced_score(features, quality_info),
             pose |-> [shoulderRotation |-> Round1(features.shoulder_rotation),
                       hipRotation |-> Round1(features.hip_rotation),
                       xFactor |-> Round1(features.x_factor),
                       spineAngle |-> Round1(features.spine_angle),
                       kneeFlex |-> Round1(features.knee_flex)],
             confidence |-> Round1(RMul(features.confidence, R(100))),
             quality_info |-> quality_info,
             processing_info |-> [scales_tested |-> Len(results),
                                  voting_results |-> final_result.voting_info,
                                  best_scale |-> final_result.scale,
                                  best_threshold |-> final_result.threshold_used,
                                  processing_stage |-> final_result.stage],
             method |-> "Enhanced MediaPipe AI Analysis"]

\* __main__ of apps/api/enhanced_golf_analyzer.py up to the call of
\* multi_scale_processing: open(sys.argv[1]) is not guarded; analyze_enhanced
\* answers a malformed or undecodable input with a failure result
ApiEnhancedMain ==
    /\ run_pc = "main"
    /\ run_entry = "api_enhanced"
    /\ IF run_input.source = "missing_file"
       THEN /\ run_pc' = "raised"
            /\ UNCHANGED <<run_stdout, scale_ix, stage_ix>>
       ELSE IF run_input.payload = "bad_base64"
       THEN /\ run_pc' = "done"
            /\ run_stdout' = Append(run_stdout, [success |-> FALSE, error |-> ERR_BASE64])
            /\ UNCHANGED <<scale_ix, stage_ix>>
       ELSE IF run_input.payload = "not_image"
       THEN /\ run_pc' = "done"
            /\ run_stdout' = Append(run_stdout, [success |-> FALSE, error |-> ERR_IMAGE])
            /\ UNCHANGED <<scale_ix, stage_ix>>
       ELSE /\ run_pc' = "scales"
            /\ scale_ix' = 1
            /\ stage_ix' = 1
            /\ UNCHANGED run_stdout
    /\ UNCHANGED <<run_entry, run_input, run_detected, run_open, best_result,
                   best_confidence, multi_scale_results>>
    /\ UnchangedExcept("run")

\* one pass of the loop of multi_stage_detection: a Pose is constructed, asked and
\* closed in the finally clause; after the last threshold the best attempt of the
\* scale, if any, is appended by multi_scale_processing
StageAttempt ==
    /\ run_pc = "scales"
    /\ \E outcome \in CollaboratorOutcomes :
         LET found == outcome.kind = "landmarks"
             features == extract_golf_features(outcome.landmarks)
             improved == found /\ RLt(best_confidence, features.confidence)
             new_best == IF improved
                         THEN [features |-> features,
                               threshold_used |-> confidence_thresholds[stage_ix],
                               stage |-> stage_ix]
                         ELSE best_result
             new_confidence == IF improved THEN features.confidence ELSE best_confidence
         IN /\ run_detected' = (run_detected \/ found)
            /\ run_open' = run_open  \* constructed (line 94), closed (line 122)
            /\ IF stage_ix < Len(confidence_thresholds)
               THEN /\ stage_ix' = stage_ix + 1
                    /\ best_result' = new_best
                    /\ best_confidence' = new_confidence
                    /\ UNCHANGED <<scale_ix, multi_scale_results, run_pc>>
               ELSE /\ multi_scale_results' =
                          IF new_best # None
                          THEN Append(multi_scale_results,
                                      Attempt(new_best.features, new_best.stage, scale_ix))
                          ELSE multi_scale_results
                    /\ best_result' = None
                    /\ best_confidence' = R(0)
                    /\ stage_ix' = 1
                    /\ IF scale_ix < Len(scales)
                       THEN scale_ix' = scale_ix + 1 /\ UNCHANGED run_pc
                       ELSE run_pc' = "vote" /\ UNCHANGED scale_ix
    /\ UNCHANGED <<run_entry, run_input, run_stdout>>
    /\ UnchangedExcept("run")

\* analyze_enhanced after multi_scale_processing, and the print of __main__
ApiEnhancedFinish ==
    /\ run_pc = "vote"
    /\ run_stdout' = Append(run_stdout,
          IF multi_scale_results = <<>>
          THEN [success |-> FALSE, enhanced |-> TRUE, error |-> ERR_NOT_DETECTED,
                quality_info |-> [quality_level |-> run_input.quality_level],
                method |-> "Enhanced MediaPipe AI - Detection Failed"]
          ELSE enhanced_result(multi_scale_results,
                               [quality_level |-> run_input.quality_level]))
    /\ multi_scale_results' = results_after_voting(multi_scale_results)
    /\ run_pc' = "done"
    /\ UNCHANGED <<run_entry, run_input, run_detected, run_open, scale_ix, stage_ix,
                   best_result, best_confidence>>
    /\ UnchangedExcept("run")

\* mean visibility over all landmarks, as analyze_pose_with_mediapipe computes it
avg_confidence(landmarks) ==
    Mean([i \in 1..Len(LandmarkIds) |-> landmarks[LandmarkIds[i]].visibility])

\* the loop of analyze_pose_with_mediapipe over pose_configs: the landmarks of the
\* first strictly better configuration, None when none qualifies
RECURSIVE BestConfig(_, _, _, _)
BestConfig(outcomes, i, best, best_conf) ==
    IF i > Len(outcomes) THEN best
    ELSE IF outcomes[i].kind = "landmarks"
            /\ RLt(best_conf, avg_confidence(outcomes[i].landmarks))
         THEN BestConfig(outcomes, i + 1, outcomes[i].landmarks,
                         avg_confidence(outcomes[i].landmarks))
         ELSE BestConfig(outcomes, i + 1, best, best_conf)

NumPoseConfigs == 3

\* what YOLO reports: nothing, or a person with a confidence
YoloDetections == {None, [confidence |-> Norm(4, 10)], [confidence |-> Norm(6, 10)]}

Raises(outcomes) == \E i \in 1..Len(outcomes) : outcomes[i].kind = "raise"

\* EnhancedGolfAnalyzer.analyze of the YOLO analyzer
yolo_analyze(payload, detection, outcomes) ==
    IF payload = "bad_base64"
    THEN [success |-> FALSE, error |-> "Incorrect padding",
          method |-> "Enhanced Analysis Error"]
    ELSE IF payload = "not_image"
    THEN [success |-> FALSE, error |-> "Invalid image data"]
    ELSE IF Raises(outcomes)
    THEN [success |-> FALSE, error |-> "pose.process failed",
          method |-> "Enhanced Analysis Error"]
    ELSE LET best == BestConfig(outcomes, 1, None, R(0))
             features == yolo_extract_golf_features(best, avg_confidence(best))
         IN IF best # None
            THEN [success |-> TRUE, detected |-> TRUE,
                  score |-> calculate_advanced_score(features),
                  pose |-> [shoulderRotation |-> Round1(features.shoulder_angle),
                            hipRotation |-> Round1(features.hip_angle),
                            xFactor |-> Round1(features.x_factor),
                            spineAngle |-> Round1(features.spine_angle),
                            stanceWidth |-> Round1(features.stance_width)],
                  confidence |-> Round1(RMul(features.confidence, R(100))),
                  method |-> "Enhanced YOLO+MediaPipe",
                  landmarks_detected |-> features.landmarks_count]
            ELSE IF detection # None /\ RLt(Norm(5, 10), detection.confidence)
            THEN [success |-> TRUE, detected |-> TRUE, score |-> 65,
                  pose |-> [shoulderRotation |-> R(0), hipRotation |-> R(0),
                            xFactor |-> R(40), spineAngle |-> R(25),
                            stanceWidth |-> R(25)],
                  confidence |-> Round1(RMul(detection.confidence, R(100))),
                  method |-> "YOLO Detection Only",
                  landmarks_detected |-> 0]
            ELSE [success |-> FALSE, detected |-> FALSE,
                  error |-> "No golfer detected in image",
                  method |-> "Enhanced Analysis Failed"]

\* index of the first configuration whose pose.process raises, 0 when none does
FirstRaise(outcomes) ==
    IF Raises(outcomes)
    THEN CHOOSE i \in 1..Len(outcomes) :
             /\ outcomes[i].kind = "raise"
             /\ \A j \in 1..(i - 1) : outcomes[j].kind # "raise"
    ELSE 0

\* __main__ of src/python/enhanced_golf_analyzer.py: the whole run.  A Pose whose
\* process raises is never closed (line 123 is not reached)
YoloEnhancedMain ==
    /\ run_pc = "main"
    /\ run_entry = "py_enhanced"
    /\ IF run_input.source = "missing_file"
       THEN /\ run_pc' = "raised"
            /\ UNCHANGED <<run_stdout, run_detected, run_open>>
       ELSE \E detection \in YoloDetections,
               outcomes \in [1..NumPoseConfigs -> CollaboratorOutcomes] :
              LET asked == IF Raises(outcomes) THEN FirstRaise(outcomes)
                           ELSE Len(outcomes)
              IN /\ run_pc' = "done"
                 /\ run_stdout' = Append(run_stdout,
                                         yolo_analyze(run_input.payload, detection, outcomes))
                 /\ run_detected' = (/\ run_input.payload = "image"
                                     /\ \E i \in 1..asked : outcomes[i].kind = "landmarks")
                 /\ run_open' = IF run_input.payload = "image" /\ Raises(outcomes)
                                THEN run_open + 1 ELSE run_open
    /\ UNCHANGED <<run_entry, run_input, scale_ix, stage_ix, best_result,
                   best_confidence, multi_scale_results>>
    /\ UnchangedExcept("run")

AdvancedInputs ==
    {[source |-> "no_argv", payload |-> "none", quality_level |-> "none"]}
        \cup [source : {"argv"}, payload : {"bad_base64", "not_image", "image"},
              quality_level : {"none"}]

\* the score analyze_single_image computes from the angles and the fault count
single_image_score(angles, faults) ==
    LET s1 == 70 + (IF Between(85, GetField(angles, "shoulder_rotation", R(0)), 95)
                    THEN 10 ELSE 0)
        s2 == s1 + (IF Between(40, GetField(angles, "hip_rotation", R(0)), 50)
                    THEN 10 ELSE 0)
        s3 == s2 + (IF RLe(R(40), GetField(angles, "x_factor", R(0))) THEN 10 ELSE 0)
        score == s3 - Len(faults) * 5
    IN PyMax(R(0), PyMin(R(100), R(score)))

\* main and analyze_single_image of advanced_golf_analyzer.py: the whole run.
\* Nothing is caught: b64decode, cvtColor(None) and holistic.process raise through
\* main, and the analyzer (a Pose and a Holistic) is closed only on the two returns
AdvancedMain ==
    /\ run_pc = "main"
    /\ run_entry = "advanced"
    /\ IF run_input.source = "no_argv"
       THEN /\ run_pc' = "done"
            /\ run_stdout' = Append(run_stdout, [error |-> "No data provided"])
            /\ UNCHANGED <<run_detected, run_open>>
       ELSE IF run_input.payload # "image"
       THEN /\ run_pc' = "raised"
            /\ run_open' = run_open + 2
            /\ UNCHANGED <<run_stdout, run_detected>>
       ELSE \E outcome \in CollaboratorOutcomes :
              IF outcome.kind = "raise"
              THEN /\ run_pc' = "raised"
                   /\ run_open' = run_open + 2
                   /\ UNCHANGED <<run_stdout, run_detected>>
              ELSE IF outcome.kind = "none"
              THEN /\ run_pc' = "done"
                   /\ run_stdout' = Append(run_stdout, [success |-> FALSE, score |-> R(0)])
                   /\ UNCHANGED <<run_detected, run_open>>
              ELSE LET angles == calculate_advanced_angles(outcome.landmarks)
                       \* with the single phase 'unknown' check_lateral_movement
                       \* is not called
                       faults == detect_advanced_faults(<<angles>>, <<"unknown">>, R(0))
                   IN /\ run_pc' = "done"
                      /\ run_stdout' = Append(run_stdout,
                             [success |-> TRUE, score |-> single_image_score(angles, faults),
                              angles |-> angles, faults |-> faults,
                              confidence |-> Norm(92, 100)])
                      /\ run_detected' = TRUE
                      /\ UNCHANGED run_open
    /\ UNCHANGED <<run_entry, run_input, scale_ix, stage_ix, best_result,
                   best_confidence, multi_scale_results>>
    /\ UnchangedExcept("run")

(***************************************************************************)
(* GolfSwingAnalyzer.analyze_image and the program golf_analyzer.py; images *)
(* are described with the result cache below.                              *)
(***************************************************************************)
Image(data, pose, score) == [data |-> data, pose |-> pose, score |-> score]
CacheImages ==
    {Image(1, "undecodable", 0), Image(2, "no_pose", 0), Image(3, "other_sport", 0),
     Image(4, "golf", 82), Image(5, "golf", 64)}

\* hash(image.data.tobytes())
image_hash_of(image) == (image.data * 1000003) % 2147483647

\* the output dictionary analyze_image builds when it does not answer from the
\* cache (angles and faults, functions of the landmarks, go with landmarks)
analyzed_output(image) ==
    IF image.pose = "undecodable"
    THEN [detected |-> FALSE, error |-> "Invalid image data", score |-> 0]
    ELSE IF image.pose = "no_pose"
    THEN [detected |-> FALSE, landmarks |-> <<>>, score |-> 50]
    ELSE IF image.pose = "other_sport"
    THEN [detected |-> FALSE, landmarks |-> <<>>, error |-> "Not a golf posture",
          score |-> 0]
    ELSE [detected |-> TRUE, landmarks |-> <<image.data>>, score |-> image.score]

\* self.last_image_hash == image_hash and self.last_result (a stored result
\* implies a stored hash, so the conjuncts are taken in the order that never
\* compares the None hash with a number)
cache_hit(image, result, hash) ==
    /\ image.pose # "undecodable"
    /\ result # None
    /\ hash = image_hash_of(image)

\* GolfSwingAnalyzer.analyze_image: what it returns and the two fields afterwards
analyze_image(image, result, hash) ==
    IF cache_hit(image, result, hash)
    THEN [ret |-> result, last_result |-> result, last_image_hash |-> hash]
    ELSE [ret |-> analyzed_output(image),
          last_result |-> IF image.pose = "golf" THEN analyzed_output(image) ELSE result,
          last_image_hash |-> IF image.pose \in {"golf", "other_sport"}
                              THEN image_hash_of(image) ELSE hash]

\* the result a new GolfSwingAnalyzer returns for the image
fresh_result(image) == analyze_image(image, None, None).ret

\* a line printed on standard output that is not the JSON result
Diagnostic(text) == [diagnostic |-> text]

\* the plain print calls of GolfSwingAnalyzer.analyze_image on a new analyzer, in
\* order (the lines of is_golf_posture are taken as one)
golf_diagnostics(image) ==
    IF image.pose = "undecodable" THEN <<>>
    ELSE IF image.pose = "no_pose" THEN <<Diagnostic("pose detection failed")>>
    ELSE <<Diagnostic("analysis succeeded"), Diagnostic("pose detected"),
           Diagnostic("is_golf_posture report"),
           Diagnostic(IF image.pose = "golf" THEN "golf posture"
                      ELSE "not a golf posture")>>

GolfInputs ==
    {[source |-> "no_argv", payload |-> "none", quality_level |-> "none"]}
        \cup [source : {"argv"}, payload : {"bad_base64", "not_image", "image"},
              quality_level : {"none"}]

\* main of golf_analyzer.py: the whole run.  analyze_image catches every
\* exception, so analyzer.close() and the final print are always reached
GolfMain ==
    /\ run_pc = "main"
    /\ run_entry = "golf"
    /\ run_pc' = "done"
    /\ IF run_input.source = "no_argv"
       THEN /\ run_stdout' = Append(run_stdout, [error |-> "No image data provided"])
            /\ UNCHANGED run_detected
       ELSE IF run_input.payload = "bad_base64"
       THEN /\ run_stdout' = Append(run_stdout,
                   [detected |-> FALSE, error |-> "Base64 decode error", score |-> 0])
            /\ UNCHANGED run_detected
       ELSE IF run_input.payload = "not_image"
       THEN /\ run_stdout' = Append(run_stdout, fresh_result(Image(1, "undecodable", 0)))
            /\ UNCHANGED run_detected
       ELSE \/ \E image \in {i \in CacheImages : i.pose # "undecodable"} :
                 /\ run_stdout' = run_stdout \o golf_diagnostics(image)
                                     \o <<fresh_result(image)>>
                 /\ run_detected' = (image.pose \in {"other_sport", "golf"})
            \/ \* self.pose.process raises
               /\ run_stdout' = run_stdout
                     \o <<Diagnostic("unexpected error"),
                          [detected |-> FALSE, error |-> "unknown error", score |-> 0,
                           fallback |-> TRUE, error_type |-> "Exception"]>>
               /\ UNCHANGED run_detected
    /\ UNCHANGED <<run_entry, run_input, run_open, scale_ix, stage_ix, best_result,
                   best_confidence, multi_scale_results>>
    /\ UnchangedExcept("run")

RunInit ==
    /\ \/ run_entry \in {"api_enhanced", "py_enhanced"} /\ run_input \in ApiInputs
       \/ run_entry = "advanced" /\ run_input \in AdvancedInputs
       \/ run_entry = "golf" /\ run_input \in GolfInputs
    /\ run_pc = "main"
    /\ run_stdout = <<>>
    /\ run_detected = FALSE
    /\ run_open = 0
    /\ scale_ix = 0
    /\ stage_ix = 0
    /\ best_result = None
    /\ best_confidence = R(0)
    /\ multi_scale_results = <<>>
    /\ IdleExcept("run")

RunNext ==
    \/ ApiEnhancedMain
    \/ StageAttempt
    \/ ApiEnhancedFinish
    \/ YoloEnhancedMain
    \/ AdvancedMain
    \/ GolfMain

SpecRun == RunInit /\ [][RunNext]_vars

RunEnded == run_pc \in {"done", "raised"}

\* the object the run printed last
Printed == run_stdout[Len(run_stdout)]

\* the attempts of maximum confidence among those that reached the voter
TiedAtMax(results) ==
    {i \in 1..Len(results) :
        \A j \in 1..Len(results) :
            RLe(results[j].features.confidence, results[i].features.confidence)}

\* of those, the one with the lower threshold index, then the smaller scale
PreferredOfTied(results) ==
    CHOOSE i \in TiedAtMax(results) :
        \A j \in TiedAtMax(results) :
            \/ results[i].stage < results[j].stage
            \/ results[i].stage = results[j].stage /\ RLe(results[i].scale, results[j].scale)

\* C6: when two or more attempts reaching the voter share the maximum confidence,
\* the consensus takes scale, threshold_used and stage from the one with the lower
\* threshold index, and among equal threshold indexes from the smaller scale
TieBreakPrefersLowerThreshold ==
    (/\ run_entry = "api_enhanced"
     /\ run_pc = "done"
     /\ run_stdout # <<>>
     /\ Cardinality(TiedAtMax(multi_scale_results)) >= 2)
    => LET preferred == multi_scale_results[PreferredOfTied(multi_scale_results)]
           info == Printed.processing_info
       IN /\ info.processing_stage = preferred.stage
          /\ info.best_scale = preferred.scale
          /\ info.best_threshold = preferred.threshold_used

\* what the code does instead: of the tied attempts the first in list order, that
\* is the smallest scale, whatever its threshold index
TieBreakTakesFirstInList ==
    (/\ run_entry = "api_enhanced"
     /\ run_pc = "done"
     /\ run_stdout # <<>>
     /\ Cardinality(TiedAtMax(multi_scale_results)) >= 2)
    => LET first == multi_scale_results[CHOOSE i \in TiedAtMax(multi_scale_results) :
                        \A j \in TiedAtMax(multi_scale_results) : i <= j]
           info == Printed.processing_info
       IN /\ info.processing_stage = first.stage
          /\ info.best_scale = first.scale
          /\ info.best_threshold = first.threshold_used

ZeroDetections ==
    run_pc = "done" /\ run_input.payload = "image" /\ ~run_detected

\* C7: when no pose-estimation attempt returns landmarks for an image, the result
\* has success = false and error "NoDetectionError"; it is never a success result
NoDetectionIsFailure ==
    ZeroDetections =>
        /\ GetField(Printed, "success", TRUE) = FALSE
        /\ GetField(Printed, "error", "") = "NoDetectionError"

\* the weaker reading, whatever the error text: a run without detections fails
NoDetectionNeverSucceeds ==
    ZeroDetections => GetField(Printed, "success", TRUE) = FALSE

\* it does not hold either: YOLO alone makes the run a success
YoloOnlySuccess ==
    /\ ZeroDetections
    /\ run_entry = "py_enhanced"
    /\ Printed.success = TRUE
    /\ Printed.score = 65

\* C8: no entry point raises uncaught: every run ends with exactly one JSON result
\* object on standard output, and with success = false when the input could not
\* be analysed (malformed base64, undecodable image, missing input)
RunEndsWithOneResult ==
    RunEnded =>
        /\ run_pc # "raised"
        /\ Len(run_stdout) = 1
        /\ "success" \in DOMAIN Printed
        /\ (run_input.payload # "image" => Printed.success = FALSE)

UncaughtReached == run_pc = "raised" /\ run_stdout = <<>>

(***************************************************************************)
(* The swing phase classifier of AdvancedGolfAnalyzer.                     *)
(***************************************************************************)
\* the classifier with every bound of progress taken inclusively
detect_swing_phase_ml_inclusive(landmarks, angles, frame_num, total_frames) ==
    LET shoulder_rot == GetField(angles, "shoulder_rotation", R(0))
        progress == Norm(frame_num, total_frames)
    IN IF RLe(progress, Norm(5, 100)) THEN "address"
       ELSE IF RLe(progress, Norm(15, 100)) /\ RLt(shoulder_rot, R(30)) THEN "takeaway"
       ELSE IF RLe(progress, Norm(4, 10)) /\ RLt(shoulder_rot, R(70)) THEN "backswing"
       ELSE IF RLe(progress, Norm(5, 10)) /\ RLe(R(70), shoulder_rot) THEN "top"
       ELSE IF RLe(progress, Norm(55, 100)) THEN "transition"
       ELSE IF RLe(progress, Norm(6, 10)) THEN "downswing"
       ELSE IF RLe(progress, Norm(65, 100)) THEN "impact"
       ELSE IF RLe(progress, Norm(8, 10)) THEN "follow_through"
       ELSE "finish"

\* AdvancedGolfAnalyzer.detect_swing_phase_ml; total_frames > 0
detect_swing_phase_ml(landmarks, angles, frame_num, total_frames) ==
    LET shoulder_rot == GetField(angles, "shoulder_rotation", R(0))
        progress == Norm(frame_num, total_frames)
    IN IF RLt(progress, Norm(5, 100)) THEN "address"
       ELSE IF RLt(progress, Norm(15, 100)) /\ RLt(shoulder_rot, R(30)) THEN "takeaway"
       ELSE IF RLt(progress, Norm(4, 10)) /\ RLt(shoulder_rot, R(70)) THEN "backswing"
       ELSE IF RLt(progress, Norm(5, 10)) /\ RLe(R(70), shoulder_rot) THEN "top"
       ELSE IF RLt(progress, Norm(55, 100)) THEN "transition"
       ELSE IF RLt(progress, Norm(6, 10)) THEN "downswing"
       ELSE IF RLt(progress, Norm(65, 100)) THEN "impact"
       ELSE IF RLt(progress, Norm(8, 10)) THEN "follow_through"
       ELSE "finish"

PhaseRotations == {NaN, R(0), R(29), R(30), R(69), R(70), R(80), R(120)}
PhaseTotals == {4, 10, 20}

PhaseAngles ==
    [shoulder_rotation : PhaseRotations, hip_rotation : {R(45)}, x_factor : {R(35)},
     spine_angle : {R(30)}]
        \cup {[hip_rotation |-> R(45)]}

\* the same shoulder rotation inside another dictionary
TwinAngles(angles) ==
    IF "shoulder_rotation" \in DOMAIN angles
    THEN [shoulder_rotation |-> angles.shoulder_rotation, hip_rotation |-> R(10),
          x_factor |-> R(-5), spine_angle |-> R(55)]
    ELSE [shoulder_rotation |-> R(0)]

PhaseInit ==
    /\ phase_angles \in PhaseAngles
    /\ phase_total \in PhaseTotals
    /\ phase_frame = 0
    /\ phases_returned = <<>>
    /\ twin_phases = <<>>
    /\ angle_history \in {<<>>, <<[shoulder_rotation |-> R(120), hip_rotation |-> R(45)]>>}
    /\ IdleExcept("phase")

\* one call for frame_num = phase_frame, and one for the same progress
\* (2 * frame_num of 2 * total_frames) and the same shoulder rotation
DetectSwingPhase ==
    /\ phase_frame <= phase_total
    /\ phases_returned' = Append(phases_returned,
           detect_swing_phase_ml(None, phase_angles, phase_frame, phase_total))
    /\ twin_phases' = Append(twin_phases,
           detect_swing_phase_ml(None, TwinAngles(phase_angles),
                                 2 * phase_frame, 2 * phase_total))
    /\ phase_frame' = phase_frame + 1
    /\ UNCHANGED <<phase_angles, phase_total, angle_history>>
    /\ UnchangedExcept("phase")

PhaseNext == DetectSwingPhase

SpecPhase == PhaseInit /\ [][PhaseNext]_vars

\* the calls made so far are those for progress 0.0, 0.1, ..., 1.0 with shoulder
\* rotation 80
TenthsWithRotation80 ==
    /\ phase_total = 10
    /\ Len(phases_returned) = 11
    /\ GetField(phase_angles, "shoulder_rotation", R(0)) = R(80)

\* C9 as stated: pure, and for progress 0.0, 0.1, ..., 1.0 with rotation 80 the
\* phases are address, takeaway, top, top, top, top, downswing, impact,
\* follow_through, finish, finish
PhaseSequenceAsStated ==
    /\ phases_returned = twin_phases
    /\ TenthsWithRotation80 =>
          phases_returned = <<"address", "takeaway", "top", "top", "top", "top", "downswing",
                           "impact", "follow_through", "finish", "finish">>

\* C9, amended: detect_swing_phase_ml is a pure function of (progress,
\* shoulder_rotation), and for progress 0.0, 0.1, ..., 1.0 with rotation 80 the
\* phases are address, top, top, top, top, transition, impact, follow_through,
\* finish, finish, finish
PhaseSequenceOfClassifier ==
    /\ phases_returned = twin_phases
    /\ TenthsWithRotation80 =>
          phases_returned = <<"address", "top", "top", "top", "top", "transition", "impact",
                           "follow_through", "finish", "finish", "finish">>

\* the classifier neither reads nor writes the analyzer's history
PhaseLeavesHistory == [][angle_history' = angle_history]_vars

PhaseSequenceReached == TenthsWithRotation80 /\ angle_history # <<>>

(***************************************************************************)
(* GolfSwingAnalyzer.analyze_image and its one-entry result cache.         *)
(* An image is [data, pose, score]: data stands for its decoded bytes,     *)
(* pose for what MediaPipe and is_golf_posture make of it ("undecodable",  *)
(* "no_pose", "other_sport", "golf"), score for what calculate_score gives *)
(* for its landmarks.  The detector is deterministic: the same bytes give  *)
(* the same pose.                                                          *)
(***************************************************************************)
MaxCacheCalls == 3

CacheInit ==
    /\ last_result = None
    /\ last_image_hash = None
    /\ cache_images = <<>>
    /\ cache_returns = <<>>
    /\ IdleExcept("cache")

AnalyzeImage ==
    /\ Len(cache_images) < MaxCacheCalls
    /\ \E image \in CacheImages :
         LET call == analyze_image(image, last_result, last_image_hash)
         IN /\ cache_returns' = Append(cache_returns, call.ret)
            /\ cache_images' = Append(cache_images, image)
            /\ last_result' = call.last_result
            /\ last_image_hash' = call.last_image_hash
    /\ UnchangedExcept("cache")

CacheNext == AnalyzeImage

SpecCache == CacheInit /\ [][CacheNext]_vars

\* C10: no analysis state survives across invocations: every analyze_image call
\* on one analyzer returns what a fresh analyzer returns for that image, whatever
\* was analysed before
ResultEqualsFreshResult ==
    \A i \in 1..Len(cache_returns) : cache_returns[i] = fresh_result(cache_images[i])

\* an image that is not a golf posture is answered with another image's result
StaleResultReturned ==
    \E i \in 1..Len(cache_returns) :
        /\ cache_images[i].pose = "other_sport"
        /\ cache_returns[i].detected = TRUE

(***************************************************************************)
(* AdvancedGolfAnalyzer video analysis: analyze_video_frames reads the     *)
(* frames of one video, and comprehensive_analysis scores what it kept.    *)
(***************************************************************************)
\* AdvancedGolfAnalyzer.calculate_wrist_hinge
calculate_wrist_hinge(landmarks) ==
    IF Has(landmarks, 15) /\ Has(landmarks, 13) /\ Has(landmarks, 11)
    THEN AcosEps3Deg(Vec2(landmarks[15], landmarks[13]), Vec2(landmarks[11], landmarks[13]))
    ELSE R(90)

\* the entries of calculate_advanced_angles that comprehensive_analysis reads
video_frame_angles(landmarks) ==
    LET a == calculate_advanced_angles(landmarks)
    IN [shoulder_rotation |-> a.shoulder_rotation, hip_rotation |-> a.hip_rotation,
        x_factor |-> a.x_factor, spine_angle |-> a.spine_angle,
        wrist_hinge |-> calculate_wrist_hinge(landmarks)]

\* AdvancedGolfAnalyzer.load_ideal_angles
ideal_angles ==
    [address |-> [spine_angle |-> 30, knee_flex |-> 145, shoulder_tilt |-> 5,
                  hip_tilt |-> 10],
     backswing |-> [shoulder_rotation |-> 90, hip_rotation |-> 45, x_factor |-> 45,
                    left_arm_angle |-> 170, wrist_hinge |-> 90],
     top |-> [shoulder_rotation |-> 95, hip_rotation |-> 45, x_factor |-> 50,
              club_shaft_angle |-> 0, left_arm_angle |-> 175],
     impact |-> [shoulder_open |-> 30, hip_open |-> 45, spine_angle |-> 25,
                 shaft_lean |-> 8, knee_flex |-> 130],
     follow_through |-> [shoulder_rotation |-> -90, hip_rotation |-> -80,
                         weight_transfer |-> 90, spine_extension |-> 5]]

\* the inner loop of analyze_phases: the score of one frame against ideal
RECURSIVE phase_penalty(_, _, _)
phase_penalty(angles, ideal, keys) ==
    IF keys = {} THEN R(0)
    ELSE LET key == CHOOSE k \in keys : TRUE
             diff == RAbs(RSub(angles[key], R(ideal[key])))
         IN RAdd(PyMin(RMul(diff, Norm(1, 2)), R(20)),
                 phase_penalty(angles, ideal, keys \ {key}))

frame_phase_score(angles, phase) ==
    LET ideal == GetField(ideal_angles, phase, <<>>)
        phase_score == RSub(R(100), phase_penalty(angles, ideal,
                                                  DOMAIN ideal \cap DOMAIN angles))
    IN PyMax(R(0), phase_score)

\* AdvancedGolfAnalyzer.analyze_phases: its 'scores' dictionary
analyze_phases(all_angles, swing_phases) ==
    LET unique_phases == {swing_phases[i] : i \in 1..Len(swing_phases)}
    IN [phase \in unique_phases |->
           LET of_phase == AnglesOfPhases(all_angles, swing_phases, {phase})
           IN Mean([i \in 1..Len(of_phase) |->
                       frame_phase_score(of_phase[i], phase)])]

\* list(d.values())
RECURSIVE ValuesOf(_, _)
ValuesOf(d, keys) ==
    IF keys = {} THEN <<>>
    ELSE LET key == CHOOSE k \in keys : TRUE
         IN <<d[key]>> \o ValuesOf(d, keys \ {key})

\* the dictionary transitions of analyze_tempo_advanced: the last index (from 0)
\* at which the phase changes to key
Transition(swing_phases, key, default) ==
    LET at == {i \in 1..(Len(swing_phases) - 1) :
                  swing_phases[i + 1] = key /\ swing_phases[i + 1] # swing_phases[i]}
    IN IF at = {} THEN default ELSE CHOOSE i \in at : \A j \in at : j <= i

\* AdvancedGolfAnalyzer.analyze_tempo_advanced; fps # 0 (the division by fps = 0
\* raises ZeroDivisionError)
analyze_tempo_advanced(swing_phases, fps) ==
    LET backswing_frames ==
            Transition(swing_phases, "top", 30) - Transition(swing_phases, "takeaway", 0)
        backswing_time == Norm(backswing_frames, fps)
        downswing_frames ==
            Transition(swing_phases, "impact", 60) - Transition(swing_phases, "top", 30)
        downswing_time == Norm(downswing_frames, fps)
        tempo_ratio == IF RLt(R(0), downswing_time)
                       THEN RDiv(backswing_time, downswing_time) ELSE R(3)
        tempo_score == RSub(R(100), RMul(RAbs(RSub(tempo_ratio, R(3))), R(20)))
    IN [backswing_time |-> backswing_time, downswing_time |-> downswing_time,
        ratio |-> tempo_ratio, score |-> PyMax(R(0), PyMin(R(100), tempo_score))]

RECURSIVE ISum(_)
ISum(s) == IF s = <<>> THEN 0 ELSE Head(s) + ISum(Tail(s))

\* the integer square root, by bisection
RECURSIVE IsqrtIn(_, _, _)
IsqrtIn(n, lo, hi) ==
    IF lo >= hi THEN lo
    ELSE LET mid == (lo + hi + 1) \div 2
         IN IF mid * mid <= n THEN IsqrtIn(n, mid, hi) ELSE IsqrtIn(n, lo, mid - 1)

Isqrt(n) == IsqrtIn(n, 0, 46340)

\* np.std of a list of angles, which are multiples of 0.01: with h the values in
\* hundredths taken from the first one, sqrt(n * sum(h^2) - sum(h)^2) / (100 * n),
\* the square root rounded down to an integer
Std(values) ==
    IF \E i \in 1..Len(values) : IsNaN(values[i]) THEN NaN
    ELSE LET n == Len(values)
             h == [i \in 1..n |-> (values[i].n * 100) \div values[i].d
                                    - (values[1].n * 100) \div values[1].d]
             sq == [i \in 1..n |-> h[i] * h[i]]
         IN Norm(Isqrt(n * ISum(sq) - ISum(h) * ISum(h)), 100 * n)

\* AdvancedGolfAnalyzer.analyze_consistency: its 'score'
analyze_consistency(all_angles) ==
    IF Len(all_angles) < 10 THEN R(70)
    ELSE LET consistency_score(key) ==
                 RSub(R(100),
                      PyMin(RMul(Std([i \in 1..Len(all_angles) |->
                                         GetField(all_angles[i], key, R(0))]), R(2)),
                            R(50)))
         IN Mean(<<consistency_score("shoulder_rotation"),
                   consistency_score("hip_rotation"),
                   consistency_score("spine_angle")>>)

\* min(list) as Python folds it
RECURSIVE PyMinSeq(_)
PyMinSeq(s) == IF Len(s) = 1 THEN s[1]
               ELSE PyMin(PyMinSeq(SubSeq(s, 1, Len(s) - 1)), s[Len(s)])

\* the weight_left of one frame in analyze_biomechanics
weight_left(lm) ==
    LET left_dist == RMul(R(Abs(lm[0].x - lm[27].x)), Unit)
        right_dist == RMul(R(Abs(lm[0].x - lm[28].x)), Unit)
    IN RMul(RDiv(right_dist, RAdd(RAdd(left_dist, right_dist), Norm(1, 1000))), R(100))

\* AdvancedGolfAnalyzer.analyze_biomechanics: its 'score' and 'details'
analyze_biomechanics(all_landmarks, all_angles) ==
    LET x_factors == [i \in 1..Len(all_angles) |-> GetField(all_angles[i], "x_factor", R(0))]
        max_x_factor == IF x_factors # <<>> THEN PyMaxSeq(x_factors) ELSE R(0)
        with_feet == SelectSeq(all_landmarks,
                               LAMBDA lm : Has(lm, 27) /\ Has(lm, 28) /\ Has(lm, 0))
        weight_shifts == [i \in 1..Len(with_feet) |-> weight_left(with_feet[i])]
        weight_transfer ==
            IF weight_shifts # <<>>
            THEN PyMin(R(100), RMul(RSub(PyMaxSeq(weight_shifts), PyMinSeq(weight_shifts)),
                                    R(2)))
            ELSE R(0)
        spine_angles == [i \in 1..Len(all_angles) |->
                            GetField(all_angles[i], "spine_angle", R(30))]
        spine_stability == IF spine_angles # <<>>
                           THEN RSub(R(100), RMul(Std(spine_angles), R(5)))
                           ELSE R(70)
        scores == [x_factor |-> PyMin(R(100), RMul(max_x_factor, R(2))),
                   weight_transfer |-> weight_transfer,
                   spine_stability |-> PyMax(R(0), PyMin(R(100), spine_stability)),
                   balance |-> RDiv(RAdd(weight_transfer,
                                         PyMax(R(0), PyMin(R(100), spine_stability))),
                                    R(2))]
    IN [score |-> Mean(<<scores.x_factor, scores.weight_transfer, scores.spine_stability,
                         scores.balance>>),
        details |-> scores, max_x_factor |-> max_x_factor]

\* AdvancedGolfAnalyzer.comprehensive_analysis; lateral_movement is the value
\* check_lateral_movement draws (the texts of the result are left out)
comprehensive_analysis(all_landmarks, all_angles, swing_phases, fps, lateral_movement) ==
    LET phase_scores == analyze_phases(all_angles, swing_phases)
        tempo_analysis == analyze_tempo_advanced(swing_phases, fps)
        consistency == analyze_consistency(all_angles)
        biomechanics == analyze_biomechanics(all_landmarks, all_angles)
        faults == detect_advanced_faults(all_angles, swing_phases, lateral_movement)
        score == calculate_weighted_score(
                     [phase_scores |-> ValuesOf(phase_scores, DOMAIN phase_scores),
                      tempo_score |-> tempo_analysis.score,
                      consistency_score |-> consistency,
                      biomechanics_score |-> biomechanics.score,
                      fault_penalty |-> R(Len(faults) * 5)])
    IN [success |-> TRUE, overall_score |-> PyMin(R(100), score),
        confidence |-> Norm(95, 100), phase_analysis |-> phase_scores,
        tempo_analysis |-> tempo_analysis, consistency |-> consistency,
        biomechanics |-> biomechanics, faults |-> faults]

\* Frames: what Holistic finds in one frame is no pose or one of two poses (the
\* nose, left elbow and left wrist added to a sample pose)
FullPose(pose, nose_x) ==
    pose @@ (0 :> Point(nose_x, 2, 0, R(1)))
         @@ (13 :> Point(pose[11].x, pose[11].y + 8, 0, R(1)))
         @@ (15 :> Point(pose[11].x + 10, pose[11].y + 8, 0, R(1)))

\* shoulder rotation 0, spine angle 4.05
AddressPose == FullPose(SamplePose(6, 6, 0, 10, 6, 6, 10, 14, <<6, 26>>, Norm(9, 10)), 8)
\* shoulder rotation 130, spine angle 19.85
OverPose == FullPose(SamplePose(6, 10, 4, 6, 6, 6, 10, 18, <<6, 26>>, Norm(9, 10)), 6)

VideoFrames == {NoPoseLandmarks, AddressPose, OverPose}
MaxFrames == 5
MaxVideoRuns == 2
FrameRates == {0, 30}
\* values np.random.uniform(0, 0.15) can return
LateralMovements == {Norm(5, 100), Norm(12, 100)}

Videos ==
    [payload : {"video"}, fps : FrameRates,
     frames : UNION {[1..n -> VideoFrames] : n \in 0..MaxFrames}]
        \cup {[payload |-> "bad_base64", fps |-> 0, frames |-> <<>>]}

HasPose(frame) == DOMAIN frame # {}

ERR_VIDEO == [error |-> "exception", success |-> FALSE]

VideoInit ==
    /\ video_input \in Videos
    /\ video_pc = "start"
    /\ frame_count = 0
    /\ video_landmarks = <<>> /\ video_angles = <<>> /\ video_phases = <<>>
    /\ video_history = <<>>
    /\ video_results = <<>>
    /\ IdleExcept("video")

\* analyze_video_frames up to the frame loop: b64decode raises on a bad payload
\* and the except branch returns the failure result
OpenVideo ==
    /\ video_pc = "start"
    /\ IF video_input.payload = "bad_base64"
       THEN /\ video_pc' = "done"
            /\ video_results' = Append(video_results, ERR_VIDEO)
       ELSE /\ video_pc' = "read"
            /\ UNCHANGED video_results
    /\ frame_count' = 0
    /\ video_landmarks' = <<>> /\ video_angles' = <<>> /\ video_phases' = <<>>
    /\ UNCHANGED <<video_input, video_history>>
    /\ UnchangedExcept("video")

\* deque(maxlen=30).append
DequeAppend(history, x) ==
    IF Len(history) < 30 THEN Append(history, x) ELSE Append(Tail(history), x)

\* one pass of the frame loop of analyze_video_frames; total_frames is the number
\* of frames of the video
ReadFrame ==
    /\ video_pc = "read"
    /\ frame_count < Len(video_input.frames)
    /\ LET frame == video_input.frames[frame_count + 1]
           angles == video_frame_angles(frame)
           phase == detect_swing_phase_ml(frame, angles, frame_count,
                                          Len(video_input.frames))
       IN IF HasPose(frame)
          THEN /\ video_landmarks' = Append(video_landmarks, frame)
               /\ video_angles' = Append(video_angles, angles)
               /\ video_phases' = Append(video_phases, phase)
               /\ video_history' = DequeAppend(video_history, angles)
          ELSE UNCHANGED <<video_landmarks, video_angles, video_phases, video_history>>
    /\ frame_count' = frame_count + 1
    /\ UNCHANGED <<video_input, video_pc, video_results>>
    /\ UnchangedExcept("video")

\* the end of analyze_video_frames: comprehensive_analysis, whose division by
\* fps = 0 raises into the except branch
FinishVideo ==
    /\ video_pc = "read"
    /\ frame_count = Len(video_input.frames)
    /\ \E lateral_movement \in LateralMovements :
          video_results' = Append(video_results,
              IF video_input.fps = 0 THEN ERR_VIDEO
              ELSE comprehensive_analysis(video_landmarks, video_angles, video_phases,
                                          video_input.fps, lateral_movement))
    /\ video_pc' = "done"
    /\ UNCHANGED <<video_input, frame_count, video_landmarks, video_angles, video_phases,
                   video_history>>
    /\ UnchangedExcept("video")

\* the same video is given again, to the same analyzer or to a new one
AnalyzeAgain ==
    /\ video_pc = "done"
    /\ Len(video_results) < MaxVideoRuns
    /\ \E new_analyzer \in BOOLEAN :
          video_history' = IF new_analyzer THEN <<>> ELSE video_history
    /\ video_pc' = "start"
    /\ UNCHANGED <<video_input, frame_count, video_landmarks, video_angles, video_phases,
                   video_results>>
    /\ UnchangedExcept("video")

VideoNext == OpenVideo \/ ReadFrame \/ FinishVideo \/ AnalyzeAgain

SpecVideo == VideoInit /\ [][VideoNext]_vars

NoFramePose == \A i \in 1..Len(video_input.frames) : ~HasPose(video_input.frames[i])

\* C11: the same video analysed twice yields the same result, fault list included
SameVideoSameResult ==
    Len(video_results) = 2 => video_results[1] = video_results[2]

\* C13: a video of which no frame yields landmarks produces a failure result,
\* never a success result carrying a score
NoPoseVideoFails ==
    \A i \in 1..Len(video_results) :
        (video_input.payload = "video" /\ video_input.frames # <<>> /\ NoFramePose)
            => /\ video_results[i].success = FALSE
               /\ "overall_score" \notin DOMAIN video_results[i]

(***************************************************************************)
(* The ensemble detector of EnhancedGolfAnalyzer on one frame, with a      *)
(* deterministic pose estimator: detector_stub[s][t] is what Pose.process  *)
(* answers for the frame at scale s with threshold t.                      *)
(***************************************************************************)
\* the test of multi_stage_detection that replaces the attempt kept so far
improves_or_equals(features, best_conf) == RLe(best_conf, features.confidence)
improves(features, best_conf) == RLt(best_conf, features.confidence)

\* the loop of multi_stage_detection over the thresholds taken in the given
\* order: the attempt kept is replaced only by a strictly more confident one
RECURSIVE stage_loop(_, _, _, _)
stage_loop(row, order, best, best_conf) ==
    IF order = <<>> THEN best
    ELSE LET i == Head(order)
             outcome == row[i]
             features == extract_golf_features(outcome.landmarks)
         IN IF outcome.kind = "landmarks" /\ improves(features, best_conf)
            THEN stage_loop(row, Tail(order),
                            [features |-> features,
                             threshold_used |-> confidence_thresholds[i], stage |-> i],
                            features.confidence)
            ELSE stage_loop(row, Tail(order), best, best_conf)

StageOrder == <<1, 2, 3, 4, 5>>
ScaleOrder == <<1, 2, 3>>

\* EnhancedGolfAnalyzer.multi_stage_detection
multi_stage_detection(row) == stage_loop(row, StageOrder, None, R(0))

\* the loop of multi_scale_processing over the scales taken in the given order
RECURSIVE scale_loop(_, _, _)
scale_loop(stub, scale_order, stage_order) ==
    IF scale_order = <<>> THEN <<>>
    ELSE LET s == Head(scale_order)
             kept == stage_loop(stub[s], stage_order, None, R(0))
             rest == scale_loop(stub, Tail(scale_order), stage_order)
         IN IF kept # None
            THEN <<Attempt(kept.features, kept.stage, s)>> \o rest
            ELSE rest

\* EnhancedGolfAnalyzer.multi_scale_processing
multi_scale_processing(stub) == scale_loop(stub, ScaleOrder, StageOrder)

UniformRow(outcome) == [t \in 1..Len(confidence_thresholds) |-> outcome]

HalfConfidentPose == SamplePose(6, 6, 0, 10, 6, 6, 10, 18, <<6, 26>>, Norm(1, 2))
ConfidentPose == SamplePose(6, 6, 0, 10, 6, 6, 10, 18, <<6, 26>>, Norm(9, 10))

\* what the stub answers at the first scale: anything at the two lowest
\* thresholds, and the same answer at the three others
StubRows ==
    {<<a, b, c, c, c>> : a \in CollaboratorOutcomes, b \in CollaboratorOutcomes,
                         c \in {[kind |-> "none"],
                                [kind |-> "landmarks", landmarks |-> HalfConfidentPose]}}

DetectorStubs ==
    {<<r1, UniformRow(o2), UniformRow(o3)>> :
        r1 \in StubRows,
        o2 \in {[kind |-> "none"], [kind |-> "raise"],
                [kind |-> "landmarks", landmarks |-> HalfConfidentPose]},
        o3 \in {[kind |-> "none"], [kind |-> "landmarks", landmarks |-> ConfidentPose]}}

EvalOrders ==
    {[scale_order |-> <<3, 2, 1>>, stage_order |-> StageOrder],
     [scale_order |-> ScaleOrder, stage_order |-> <<5, 4, 3, 2, 1>>]}

DetectInit ==
    /\ detector_stub \in DetectorStubs
    /\ eval_order \in EvalOrders
    /\ attempts_ret = None
    /\ reordered_ret = None
    /\ IdleExcept("detect")

MultiScaleProcessing ==
    /\ attempts_ret = None
    /\ attempts_ret' = [results |-> multi_scale_processing(detector_stub)]
    /\ UNCHANGED <<detector_stub, eval_order, reordered_ret>>
    /\ UnchangedExcept("detect")

ReorderedProcessing ==
    /\ reordered_ret = None
    /\ reordered_ret' = [results |-> scale_loop(detector_stub, eval_order.scale_order,
                                                 eval_order.stage_order)]
    /\ UNCHANGED <<detector_stub, eval_order, attempts_ret>>
    /\ UnchangedExcept("detect")

DetectNext == MultiScaleProcessing \/ ReorderedProcessing

SpecDetect == DetectInit /\ [][DetectNext]_vars

\* the attempts of the returned list made at scale s with threshold t
AttemptsOfPair(ret, s, t) ==
    {i \in 1..Len(ret) : ret[i].scale = scales[s] /\ ret[i].stage = t}

\* C12: the list handed to the voter holds exactly one attempt for every
\* (scale, threshold) pair at which the estimator returned landmarks, and none
\* for the other pairs
OneAttemptPerDetectedPair ==
    attempts_ret # None =>
        \A s \in 1..Len(scales), t \in 1..Len(confidence_thresholds) :
            Cardinality(AttemptsOfPair(attempts_ret.results, s, t)) =
                IF detector_stub[s][t].kind = "landmarks" THEN 1 ELSE 0

(***************************************************************************)
(* Further properties of the voter.                                        *)
(***************************************************************************)
\* C14: when every attempt has x_factor = |shoulder_rotation - hip_rotation|, so
\* has the consensus
ConsensusXFactorIsAbs ==
    (vote_calls = 1 /\ vote_ret # None
        /\ \A i \in 1..Len(vote_input) : XFactorIsAbs(vote_input[i].features))
    => XFactorIsAbs(vote_ret.features)

(***************************************************************************)
(* EnhancedGolfAnalyzer.assess_image_quality.  An image is given by what   *)
(* the function reads of it: its size, the variance of its Laplacian and   *)
(* its mean brightness.                                                    *)
(***************************************************************************)
assess_image_quality(image) ==
    LET pixel_count == image.h * image.w
        resolution_score == PyMin(R(100), RMul(Norm(pixel_count, 640 * 480), R(50)))
        sharpness_score == PyMin(R(100), RMul(RDiv(image.laplacian_var, R(100)), R(50)))
        brightness_score ==
            RSub(R(100), RMul(RDiv(RAbs(RSub(image.mean_brightness, R(128))), R(128)),
                              R(100)))
        total_score == RDiv(RAdd(RAdd(resolution_score, sharpness_score), brightness_score),
                            R(3))
    IN [total_score |-> Round1(total_score),
        resolution |-> <<image.w, image.h>>,
        sharpness |-> Round1(image.laplacian_var),
        brightness |-> Round1(image.mean_brightness),
        quality_level |-> IF RLe(R(70), total_score) THEN "high"
                          ELSE IF RLe(R(40), total_score) THEN "medium"
                          ELSE "low"]

ImageSizes == {<<320, 240>>, <<640, 480>>, <<1280, 960>>}
LaplacianVars ==
    {R(0), Norm(149, 10), R(15), Norm(199, 10), R(20), R(100), R(200), R(300)}
MeanBrightnesses == {R(0), R(64), R(128), R(200), R(255)}

AssessedImages ==
    {[w |-> size[1], h |-> size[2], laplacian_var |-> v, mean_brightness |-> b] :
        size \in ImageSizes, v \in LaplacianVars, b \in MeanBrightnesses}

QualityInit ==
    /\ assessed_image \in AssessedImages
    /\ assessment = None
    /\ IdleExcept("quality")

AssessImageQuality ==
    /\ assessment = None
    /\ assessment' = assess_image_quality(assessed_image)
    /\ UNCHANGED assessed_image
    /\ UnchangedExcept("quality")

QualityNext == AssessImageQuality

SpecQuality == QualityInit /\ [][QualityNext]_vars

\* C15: quality_level is 'high' exactly when the reported total_score is >= 70,
\* 'medium' exactly when it is >= 40 and < 70, 'low' exactly when it is < 40
LevelMatchesReportedScore ==
    assessment # None =>
        /\ assessment.quality_level = "high" <=> RLe(R(70), assessment.total_score)
        /\ assessment.quality_level = "medium" <=>
               (RLe(R(40), assessment.total_score) /\ RLt(assessment.total_score, R(70)))
        /\ assessment.quality_level = "low" <=> RLt(assessment.total_score, R(40))

(***************************************************************************)
(* Further properties of the program runs.                                 *)
(***************************************************************************)
\* C16: standard output carries only the single JSON result object: no diagnostic
\* line precedes or follows it
StdoutOnlyResult ==
    /\ Len(run_stdout) <= 1
    /\ \A i \in 1..Len(run_stdout) : "diagnostic" \notin DOMAIN run_stdout[i]

\* C18: an attempt whose pose estimation raises or returns nothing is recovered
\* locally: no run over a decodable image ends with the error result of a raising
\* attempt
AttemptFailureRecovered ==
    (/\ run_pc = "done"
     /\ run_entry \in {"api_enhanced", "py_enhanced"}
     /\ run_input.payload = "image")
    => GetField(Printed, "error", "") # "pose.process failed"

\* a run in which one attempt returned landmarks and a later one raised
DetectedThenRaised ==
    /\ run_pc = "done"
    /\ run_entry = "py_enhanced"
    /\ run_detected
    /\ Printed.success = FALSE

\* C19: every pose estimator constructed during a run has been released when the
\* run ends, whether it ends by returning or by an exception
EstimatorsReleased == RunEnded => run_open = 0

(***************************************************************************)
(* Further properties of the ensemble detector.                            *)
(***************************************************************************)
ElementsOf(list) == {list[i] : i \in 1..Len(list)}

\* C20: for a fixed frame and a deterministic estimator the set of attempts
\* produced, one kept per scale, is the same whatever the order in which the
\* (scale, threshold) pairs are evaluated
AttemptsOrderIndependent ==
    (attempts_ret # None /\ reordered_ret # None)
    => ElementsOf(attempts_ret.results) = ElementsOf(reordered_ret.results)

\* what does hold: the scales are independent of each other, so the order of the
\* scales alone does not change the set
AttemptsScaleOrderIndependent ==
    (attempts_ret # None /\ reordered_ret # None /\ eval_order.stage_order = StageOrder)
    => ElementsOf(attempts_ret.results) = ElementsOf(reordered_ret.results)

(***************************************************************************)
(* Further properties of the video analysis.                               *)
(***************************************************************************)
\* C21: once analyze_video_frames has read a video, swing_phases and all_angles
\* hold one entry per frame read, in frame order: entry i is what frame i gave
TimelineIndexedByFrame ==
    (video_pc = "done" /\ video_input.payload = "video")
        => /\ Len(video_phases) = Len(video_input.frames)
           /\ Len(video_angles) = Len(video_input.frames)
           /\ \A i \in 1..Len(video_angles) :
                 video_angles[i] = video_frame_angles(video_input.frames[i])

\* a frame without pose was read before a frame with one
FrameSkippedBeforePose ==
    /\ video_pc = "done" /\ video_input.payload = "video"
    /\ Len(video_input.frames) = 2
    /\ ~HasPose(video_input.frames[1]) /\ HasPose(video_input.frames[2])
    /\ Len(video_phases) = 1

(***************************************************************************)
(* analyze_tempo_advanced of AdvancedGolfAnalyzer as a function of the     *)
(* phase timeline and the frame rate.                                      *)
(***************************************************************************)
TempoPhases == {"address", "takeaway", "top", "impact", "finish"}
MaxTimeline == 5
TempoFrameRates == {25, 30}

TempoCalls ==
    [swing_phases : UNION {[1..n -> TempoPhases] : n \in 0..MaxTimeline},
     fps : TempoFrameRates]

TempoInit ==
    /\ tempo_call \in TempoCalls
    /\ tempo_ret = None
    /\ IdleExcept("tempo")

AnalyzeTempoAdvanced ==
    /\ tempo_ret = None
    /\ tempo_ret' = analyze_tempo_advanced(tempo_call.swing_phases, tempo_call.fps)
    /\ UNCHANGED tempo_call
    /\ UnchangedExcept("tempo")

TempoNext == AnalyzeTempoAdvanced

SpecTempo == TempoInit /\ [][TempoNext]_vars

\* entry i (from 0) of the timeline is the first of a run of phase key
ChangesTo(timeline, i, key) ==
    timeline[i + 1] = key /\ (i = 0 \/ timeline[i] # key)

\* C22: the tempo ratio returned is (frames from a takeaway transition to a top
\* transition) / (frames from that top transition to an impact transition) of the
\* timeline given, and the score is 100 - 20 * |ratio - 3| clamped to [0, 100]
TempoRatioFromTimeline ==
    tempo_ret # None =>
        LET timeline == tempo_call.swing_phases
            indices == 0..(Len(timeline) - 1)
        IN /\ \E takeaway \in indices, top \in indices, impact \in indices :
                 /\ ChangesTo(timeline, takeaway, "takeaway")
                 /\ ChangesTo(timeline, top, "top")
                 /\ ChangesTo(timeline, impact, "impact")
                 /\ tempo_ret.ratio = Norm(top - takeaway, impact - top)
           /\ tempo_ret.score =
                  PyMax(R(0), PyMin(R(100),
                      RSub(R(100), RMul(R(20), RAbs(RSub(tempo_ret.ratio, R(3)))))))

\* the score alone is as stated
TempoScoreFromRatio ==
    tempo_ret # None =>
        tempo_ret.score =
            PyMax(R(0), PyMin(R(100),
                RSub(R(100), RMul(R(20), RAbs(RSub(tempo_ret.ratio, R(3)))))))

\* a timeline without an impact entry: the downswing is counted up to frame 60
TempoFromDefaults ==
    /\ tempo_ret # None
    /\ tempo_call.swing_phases = <<"address", "takeaway", "top", "finish">>
    /\ tempo_ret.ratio = Norm(1, 58)
    /\ tempo_ret.downswing_time = Norm(58, tempo_call.fps)

\* the spine angles kept for the frames of the given phase
SpineAnglesOf(phase) ==
    LET of_phase == AnglesOfPhases(video_angles, video_phases, {phase})
    IN {of_phase[i].spine_angle : i \in 1..Len(of_phase)}

EarlyExtensionsIn(result) ==
    Cardinality({i \in 1..Len(result.faults) : result.faults[i].type = "early_extension"})

\* C23: an analysis reports early_extension (severity high) exactly when the spine
\* angle of some impact frame differs by more than 10 degrees from the spine angle
\* of the address phase of the same video, and reports it at most once
EarlyExtensionFromAddressBaseline ==
    (video_pc = "done" /\ video_results[Len(video_results)].success) =>
        LET result == video_results[Len(video_results)]
            deviates == \E at_impact \in SpineAnglesOf("impact"),
                           at_address \in SpineAnglesOf("address") :
                            RLt(R(10), RAbs(RSub(at_impact, at_address)))
        IN /\ EarlyExtensionsIn(result) = IF deviates THEN 1 ELSE 0
           /\ \A i \in 1..Len(result.faults) :
                 result.faults[i].type = "early_extension"
                     => result.faults[i].severity = "high"

\* the same pose in every frame, and early_extension is reported
EarlyExtensionWithoutDeviation ==
    /\ video_pc = "done" /\ video_results[Len(video_results)].success
    /\ video_input.frames = [i \in 1..5 |-> AddressPose]
    /\ SpineAnglesOf("impact") = SpineAnglesOf("address")
    /\ EarlyExtensionsIn(video_results[Len(video_results)]) = 1

\* early_extension is reported at most once, and with severity high
EarlyExtensionAtMostOnce ==
    \A r \in 1..Len(video_results) :
        video_results[r].success =>
            /\ EarlyExtensionsIn(video_results[r]) <= 1
            /\ \A i \in 1..Len(video_results[r].faults) :
                  video_results[r].faults[i].type = "early_extension"
                      => video_results[r].faults[i].severity = "high"

(***************************************************************************)
(* calculate_angle_3points of EnhancedGolfAnalyzer and of ProGolfAnalyzer  *)
(* on the knees of a pose, and the knee flex computed from it.             *)
(***************************************************************************)
\* arccos(dot / (|v| |w| + 1e-6)) in hundredths of a degree
AcosEps6Table ==
    <<-32, 1024>> :> 17971 @@
    <<-32, 1280>> :> 15343 @@
    <<-32, 2048>> :> 13500 @@
    <<-16, 256>> :> 17959 @@
    <<-16, 512>> :> 13500 @@
    <<-16, 2560>> :> 10843 @@
    <<0, 0>> :> 9000

\* ProGolfAnalyzer.calculate_angle_3points
pro_calculate_angle_3points(p1, p2, p3) ==
    LET v1 == Vec2(p1, p2)
        v2 == Vec2(p3, p2)
    IN Norm(AcosEps6Table[<<Dot(v1, v2), NormSq(v1) * NormSq(v2)>>], 100)

Analyzers == {"EnhancedGolfAnalyzer", "ProGolfAnalyzer"}

\* the knee angles and the knee flex as extract_golf_features and as
\* ProGolfAnalyzer.analyze_golf_pose compute them
knee_angles(analyzer, landmarks) ==
    LET left_knee_angle ==
            IF analyzer = "EnhancedGolfAnalyzer"
            THEN calculate_angle_3points(landmarks[23], landmarks[25], landmarks[27])
            ELSE pro_calculate_angle_3points(landmarks[23], landmarks[25], landmarks[27])
        right_knee_angle ==
            IF analyzer = "EnhancedGolfAnalyzer"
            THEN calculate_angle_3points(landmarks[24], landmarks[26], landmarks[28])
            ELSE pro_calculate_angle_3points(landmarks[24], landmarks[26], landmarks[28])
    IN [left_knee_angle |-> left_knee_angle, right_knee_angle |-> right_knee_angle,
        knee_flex |-> RSub(R(180), RDiv(RAdd(left_knee_angle, right_knee_angle), R(2)))]

AngleInit ==
    /\ angle_call \in [analyzer : Analyzers, landmarks : SampleLandmarks]
    /\ angle_ret = None
    /\ IdleExcept("angle")

CalculateKneeAngles ==
    /\ angle_ret = None
    /\ angle_ret' = knee_angles(angle_call.analyzer, angle_call.landmarks)
    /\ UNCHANGED angle_call
    /\ UnchangedExcept("angle")

AngleNext == CalculateKneeAngles

SpecAngle == AngleInit /\ [][AngleNext]_vars

\* two of the three points hip, knee, ankle of the left leg coincide
ZeroLengthVector(landmarks) ==
    \/ landmarks[23].x = landmarks[25].x /\ landmarks[23].y = landmarks[25].y
    \/ landmarks[27].x = landmarks[25].x /\ landmarks[27].y = landmarks[25].y

\* C24: calculate_angle_3points returns 90 when one of its vectors has no length,
\* and no nan reaches the knee angles or the knee flex
ZeroVectorAngleIsDefault ==
    angle_ret # None =>
        /\ ZeroLengthVector(angle_call.landmarks) => angle_ret.left_knee_angle = R(90)
        /\ ~IsNaN(angle_ret.left_knee_angle)
        /\ ~IsNaN(angle_ret.right_knee_angle)
        /\ ~IsNaN(angle_ret.knee_flex)

\* ProGolfAnalyzer's function does, by the 1e-6 added to the denominator
ProZeroVectorAngleIsDefault ==
    (angle_ret # None /\ angle_call.analyzer = "ProGolfAnalyzer") =>
        /\ ZeroLengthVector(angle_call.landmarks) => angle_ret.left_knee_angle = R(90)
        /\ ~IsNaN(angle_ret.knee_flex)

ProZeroVectorReached ==
    /\ angle_ret # None /\ angle_call.analyzer = "ProGolfAnalyzer"
    /\ ZeroLengthVector(angle_call.landmarks)

\* EnhancedGolfAnalyzer's function returns nan, and the knee flex is nan
EnhancedZeroVectorIsNaN ==
    /\ angle_ret # None /\ angle_call.analyzer = "EnhancedGolfAnalyzer"
    /\ ZeroLengthVector(angle_call.landmarks)
    /\ IsNaN(angle_ret.left_knee_angle)
    /\ IsNaN(angle_ret.knee_flex)

(***************************************************************************)
(* The frame sampling loop of ProGolfAnalyzer.analyze_video.               *)
(***************************************************************************)
MaxFrameCount == 100

\* max(1, frame_count // 20)
frame_interval(n_frames) ==
    IF 1 < n_frames \div 20 THEN n_frames \div 20 ELSE 1

SampleInit ==
    /\ sample_frame_count \in 0..MaxFrameCount
    /\ sample_i = 0
    /\ sample_pc = "loop"
    /\ frames_analyzed = <<>>
    /\ IdleExcept("sample")

\* one pass of `for i in range(0, frame_count, frame_interval)` in which cap.read
\* returns a frame
SampleFrame ==
    /\ sample_pc = "loop"
    /\ sample_i < sample_frame_count
    /\ frames_analyzed' = Append(frames_analyzed, sample_i)
    /\ sample_i' = sample_i + frame_interval(sample_frame_count)
    /\ UNCHANGED <<sample_frame_count, sample_pc>>
    /\ UnchangedExcept("sample")

\* cap.read returns no frame (`if not ret: break`), or the range is exhausted
EndSampling ==
    /\ sample_pc = "loop"
    /\ sample_pc' = "done"
    /\ UNCHANGED <<sample_frame_count, sample_i, frames_analyzed>>
    /\ UnchangedExcept("sample")

SampleNext == SampleFrame \/ EndSampling

SpecSample == SampleInit /\ [][SampleNext]_vars

\* C25: analyze_video gives at most 20 frames of a video to the frame analysis
AtMostTwentyFramesAnalyzed == Len(frames_analyzed) <= 20

\* a video of 39 frames is analysed frame by frame
ThirtyNineFramesAnalyzed ==
    /\ sample_pc = "done" /\ sample_frame_count = 39
    /\ Len(frames_analyzed) = 39

\* the number of frames analysed stays below twice the intended cap
FewerThanFortyFramesAnalyzed == Len(frames_analyzed) < 40

(***************************************************************************)
(* Two video analyses running at the same time, each in its own analyzer   *)
(* instance, on one machine: what they share is the file system.           *)
(***************************************************************************)
Analyses == {1, 2}
VideoAnalyzers == {"AdvancedGolfAnalyzer", "ProGolfAnalyzer"}
VideoBytes == {"video_a", "video_b"}
TmpPaths == {"/tmp/temp_video.mp4", "/tmp/tmp_1.mp4", "/tmp/tmp_2.mp4"}

\* the path an analysis writes its video to: a fixed one in analyze_video_frames,
\* a fresh one from tempfile.NamedTemporaryFile in analyze_video
temp_video_path(p) ==
    IF analyzer_kind[p] = "AdvancedGolfAnalyzer" THEN "/tmp/temp_video.mp4"
    ELSE IF p = 1 THEN "/tmp/tmp_1.mp4" ELSE "/tmp/tmp_2.mp4"

ConcInit ==
    /\ analyzer_kind \in [Analyses -> VideoAnalyzers]
    /\ video_given \in [Analyses -> VideoBytes]
    /\ analysis_pc = [p \in Analyses |-> "start"]
    /\ tmp_files = [path \in TmpPaths |-> "absent"]
    /\ video_decoded = [p \in Analyses |-> "none"]
    /\ IdleExcept("conc")

\* the decoded bytes are written to the temporary file
WriteVideo(p) ==
    /\ analysis_pc[p] = "start"
    /\ tmp_files' = [tmp_files EXCEPT ![temp_video_path(p)] = video_given[p]]
    /\ analysis_pc' = [analysis_pc EXCEPT ![p] = "written"]
    /\ UNCHANGED <<analyzer_kind, video_given, video_decoded>>
    /\ UnchangedExcept("conc")

\* cv2.VideoCapture(path) and the frame loop: the frames are those of the file
\* at that path
DecodeVideo(p) ==
    /\ analysis_pc[p] = "written"
    /\ video_decoded' = [video_decoded EXCEPT ![p] = tmp_files[temp_video_path(p)]]
    /\ analysis_pc' = [analysis_pc EXCEPT ![p] = "decoded"]
    /\ UNCHANGED <<analyzer_kind, video_given, tmp_files>>
    /\ UnchangedExcept("conc")

\* the end of the analysis: analyze_video unlinks its file, analyze_video_frames
\* leaves it
EndAnalysis(p) ==
    /\ analysis_pc[p] = "decoded"
    /\ tmp_files' = IF analyzer_kind[p] = "ProGolfAnalyzer"
                    THEN [tmp_files EXCEPT ![temp_video_path(p)] = "absent"]
                    ELSE tmp_files
    /\ analysis_pc' = [analysis_pc EXCEPT ![p] = "done"]
    /\ UNCHANGED <<analyzer_kind, video_given, video_decoded>>
    /\ UnchangedExcept("conc")

ConcNext == \E p \in Analyses : WriteVideo(p) \/ DecodeVideo(p) \/ EndAnalysis(p)

SpecConc == ConcInit /\ [][ConcNext]_vars

\* C26: of two analyses running concurrently, each decodes the video bytes it
\* was given
EachDecodesOwnVideo ==
    \A p \in Analyses :
        analysis_pc[p] \in {"decoded", "done"} => video_decoded[p] = video_given[p]

\* two analyze_video_frames calls, and one decoded the other's video
DecodedOtherVideo ==
    /\ \A p \in Analyses : analyzer_kind[p] = "AdvancedGolfAnalyzer"
    /\ \A p \in Analyses : analysis_pc[p] = "done"
    /\ video_decoded[1] = video_given[2] /\ video_given[1] # video_given[2]

\* analyze_video of ProGolfAnalyzer decodes its own video whatever runs beside it
ProDecodesOwnVideo ==
    \A p \in Analyses :
        (analyzer_kind[p] = "ProGolfAnalyzer" /\ analysis_pc[p] \in {"decoded", "done"})
            => video_decoded[p] = video_given[p]

\* the estimator's detections at scale s all have mean key-landmark visibility 0
OnlyZeroConfidenceAt(s) ==
    /\ \E t \in 1..Len(detector_stub[s]) : detector_stub[s][t].kind = "landmarks"
    /\ \A t \in 1..Len(detector_stub[s]) :
          detector_stub[s][t].kind = "landmarks"
              => extract_golf_features(detector_stub[s][t].landmarks).confidence = R(0)

AttemptsAtScale(ret, s) == {i \in 1..Len(ret) : ret[i].scale = scales[s]}

\* C27: every attempt multi_scale_processing returns has confidence > 0, so the
\* total weight of a non-empty list is positive; a scale at which the estimator's
\* detections have confidence 0 yields no attempt
AttemptsHavePositiveConfidence ==
    attempts_ret # None =>
        LET results == attempts_ret.results
        IN /\ \A i \in 1..Len(results) : RLt(R(0), results[i].features.confidence)
           /\ results # <<>> => RLt(R(0), total_weight(results))
           /\ \A s \in 1..NumScales :
                 OnlyZeroConfidenceAt(s) => AttemptsAtScale(results, s) = {}

ZeroConfidenceDetectionDropped ==
    /\ attempts_ret # None
    /\ attempts_ret.results # <<>>
    /\ OnlyZeroConfidenceAt(1)
    /\ AttemptsAtScale(attempts_ret.results, 1) = {}

\* C28: confidence_weighted_voting leaves the attempts of the list it is given as
\* they were, so that a second call on the same list returns the same consensus
VotingLeavesAttemptsUnchanged ==
    vote_calls >= 1 =>
        /\ \A i \in 1..Len(vote_input) : vote_results[i].features = vote_input[i].features
        /\ vote_ret.features = confidence_weighted_voting(vote_input).features

\* after one call an attempt of the list holds the weighted means, and the second
\* call returned another consensus than the first
SecondVoteDiffers ==
    /\ vote_calls = 2
    /\ \E i \in 1..Len(vote_input) : vote_results[i].features # vote_input[i].features
    /\ vote_ret.features # confidence_weighted_voting(vote_input).features

(***************************************************************************)
(* detect_swing_phase_ml over the frames of one video, each frame with its *)
(* own shoulder rotation.                                                  *)
(***************************************************************************)
SwingPhaseOrder == <<"address", "takeaway", "backswing", "top", "transition",
                     "downswing", "impact", "follow_through", "finish">>

PhaseRank(phase) == CHOOSE i \in 1..Len(SwingPhaseOrder) : SwingPhaseOrder[i] = phase

\* a shoulder rotation below 30, one from 30 to below 70, one from 70 on
FrameRotations == {R(0), R(50), R(80)}
FrameAngles ==
    [shoulder_rotation : FrameRotations, hip_rotation : {R(45)}, x_factor : {R(35)},
     spine_angle : {R(30)}]

FramesInit ==
    /\ phase_angles = None
    /\ phase_total \in PhaseTotals
    /\ phase_frame = 0
    /\ phases_returned = <<>>
    /\ twin_phases = <<>>
    /\ angle_history = <<>>
    /\ IdleExcept("phase")

\* the call of the frame loop of analyze_video_frames for frame phase_frame, whose
\* angles hold any shoulder rotation
ClassifyFrame ==
    /\ phase_frame < phase_total
    /\ \E angles \in FrameAngles :
          /\ phase_angles' = angles
          /\ phases_returned' = Append(phases_returned,
                 detect_swing_phase_ml(None, angles, phase_frame, phase_total))
    /\ phase_frame' = phase_frame + 1
    /\ UNCHANGED <<phase_total, twin_phases, angle_history>>
    /\ UnchangedExcept("phase")

FramesNext == ClassifyFrame

SpecFrames == FramesInit /\ [][FramesNext]_vars

\* C29: the phases given to the frames of a video, in frame order, never move
\* backward in the order address < takeaway < ... < finish
PhasesNeverMoveBackward ==
    \A i \in 1..Len(phases_returned), j \in 1..Len(phases_returned) :
        i < j => PhaseRank(phases_returned[i]) <= PhaseRank(phases_returned[j])

\* a frame at 10% with shoulder rotation 80 is top, the next one at 20% with
\* shoulder rotation 0 is backswing
TopThenBackswing ==
    /\ phase_total = 10 /\ Len(phases_returned) = 3
    /\ phases_returned = <<"address", "top", "backswing">>
    /\ phase_angles.shoulder_rotation = R(0)

(***************************************************************************)
(* GolfSwingAnalyzer.analyze_image on the landmarks MediaPipe finds:       *)
(* is_golf_posture, calculate_golf_angles, detect_swing_faults and         *)
(* calculate_score.  Landmark coordinates are integers in hundredths of    *)
(* the image.                                                              *)
(***************************************************************************)
\* a coordinate, and the mean of two coordinates, as numbers
Hundredths(c) == Norm(c, 100)
Center(a, b) == Norm(a + b, 200)

\* the check of is_golf_posture for a running posture
is_running_posture_lenient(landmarks) ==
    RLt(Norm(65, 100), Hundredths(Abs(landmarks[11].x - landmarks[12].x)))
is_running_posture(landmarks) ==
    RLt(Norm(35, 100), Hundredths(Abs(landmarks[11].x - landmarks[12].x)))

\* GolfSwingAnalyzer.is_golf_posture
is_golf_posture(landmarks) ==
    LET left_shoulder == landmarks[11]
        right_shoulder == landmarks[12]
        left_hip == landmarks[23]
        right_hip == landmarks[24]
        left_wrist == landmarks[15]
        right_wrist == landmarks[16]
        left_elbow == landmarks[13]
        right_elbow == landmarks[14]
        nose == landmarks[0]
        left_knee == landmarks[25]
        right_knee == landmarks[26]
        Inside(lo, x, hi) == RLt(Norm(lo, 100), x) /\ RLt(x, Norm(hi, 100))
        shoulder_tilt == Hundredths(Abs(left_shoulder.y - right_shoulder.y))
        s1 == IF RLt(shoulder_tilt, Norm(8, 100)) THEN 20
              ELSE IF RLt(shoulder_tilt, Norm(15, 100)) THEN 15
              ELSE IF RLt(shoulder_tilt, Norm(25, 100)) THEN 10 ELSE 0
        wrist_diff == Hundredths(Abs(left_wrist.y - right_wrist.y))
        s2 == IF RLt(wrist_diff, Norm(2, 10)) THEN 15
              ELSE IF RLt(wrist_diff, Norm(4, 10)) THEN 10
              ELSE IF RLt(wrist_diff, Norm(6, 10)) THEN 5 ELSE 0
        shoulder_center_y == Center(left_shoulder.y, right_shoulder.y)
        elbow_shoulder_relation ==
            RSub(Center(left_elbow.y, right_elbow.y), shoulder_center_y)
        s3 == IF Inside(10, elbow_shoulder_relation, 40) THEN 15
              ELSE IF Inside(5, elbow_shoulder_relation, 50) THEN 10 ELSE 0
        hip_center_y == Center(left_hip.y, right_hip.y)
        forward_lean == RSub(hip_center_y, shoulder_center_y)
        s4 == IF Inside(10, forward_lean, 40) THEN 20
              ELSE IF Inside(5, forward_lean, 50) THEN 15
              ELSE IF RLt(R(0), forward_lean) THEN 10 ELSE 0
        knee_hip_relation == RSub(Center(left_knee.y, right_knee.y), hip_center_y)
        s5 == IF Inside(15, knee_hip_relation, 35) THEN 10
              ELSE IF Inside(10, knee_hip_relation, 40) THEN 7 ELSE 0
        s6 == IF Inside(15, Hundredths(nose.y), 60) THEN 10
              ELSE IF Inside(10, Hundredths(nose.y), 70) THEN 7 ELSE 0
        wrist_center_x == Center(left_wrist.x, right_wrist.x)
        body_center_x == Center(left_shoulder.x, right_shoulder.x)
        hand_body_distance == RAbs(RSub(wrist_center_x, body_center_x))
        s7 == IF RLt(hand_body_distance, Norm(3, 10)) THEN 10
              ELSE IF RLt(hand_body_distance, Norm(5, 10)) THEN 7
              ELSE IF RLt(hand_body_distance, Norm(7, 10)) THEN 3 ELSE 0
        stance_width == Hundredths(Abs(left_knee.x - right_knee.x))
        shoulder_width == Hundredths(Abs(left_shoulder.x - right_shoulder.x))
        stance_ratio == RDiv(stance_width, PyMax(shoulder_width, Norm(1, 10)))
        b1 == IF RLe(Norm(8, 10), stance_ratio) /\ RLe(stance_ratio, Norm(15, 10))
              THEN 5 ELSE 0
        weight_balance == RDiv(stance_width, R(2))
        body_center == RAbs(body_center_x)
        b2 == IF RLt(RAbs(RSub(weight_balance, body_center)), Norm(1, 10)) THEN 5 ELSE 0
        score == s1 + s2 + s3 + s4 + s5 + s6 + s7 + b1 + b2
        is_other_sport ==
            \/ RLt(Hundredths(left_knee.y), RSub(hip_center_y, Norm(15, 100)))
            \/ RLt(Hundredths(right_knee.y), RSub(hip_center_y, Norm(15, 100)))
            \/ /\ RLt(RAdd(body_center_x, Norm(5, 10)), wrist_center_x)
               /\ RLt(Hundredths(nose.y), Norm(25, 100))
            \/ is_running_posture(landmarks)
            \/ /\ RLt(Hundredths(nose.y), Norm(15, 100))
               /\ RLt(Norm(6, 10), hand_body_distance)
            \/ RLt(Norm(7, 10), hip_center_y)
    IN score >= 75 /\ ~is_other_sport

\* GolfSwingAnalyzer.calculate_golf_angles
calculate_golf_angles(landmarks) ==
    LET left_shoulder == landmarks[11]
        right_shoulder == landmarks[12]
        left_hip == landmarks[23]
        right_hip == landmarks[24]
        shoulder_angle == RMul(Hundredths(Abs(left_shoulder.x - right_shoulder.x)), R(180))
        hip_angle == RMul(Hundredths(Abs(left_hip.x - right_hip.x)), R(150))
    IN [shoulder_rotation |-> shoulder_angle,
        hip_rotation |-> hip_angle,
        x_factor |-> RAbs(RSub(shoulder_angle, hip_angle)),
        spine_angle |-> RMul(RAbs(RSub(Center(left_shoulder.y, right_shoulder.y),
                                       Center(left_hip.y, right_hip.y))), R(90))]

\* GolfSwingAnalyzer.detect_swing_faults: angles holds neither knee_flex nor
\* elbow_angle, which are read as 0
detect_swing_faults(angles, landmarks) ==
    LET Get0(key) == GetField(angles, key, R(0))
        turn == IF RLt(R(110), Get0("shoulder_rotation"))
                THEN <<Fault("over_swing", "medium")>>
                ELSE IF RLt(Get0("shoulder_rotation"), R(75))
                     THEN <<Fault("insufficient_turn", "high")>> ELSE <<>>
        x_factor == IF RLt(Get0("x_factor"), R(25))
                    THEN <<Fault("poor_x_factor", "medium")>> ELSE <<>>
        knee == IF RLt(Get0("knee_flex"), R(130)) \/ RLt(R(170), Get0("knee_flex"))
                THEN <<Fault("knee_flex_issue", "low")>> ELSE <<>>
        arm == IF RLt(Get0("elbow_angle"), R(150))
               THEN <<Fault("bent_arm", "medium")>> ELSE <<>>
        spine == IF RLt(Get0("spine_angle"), R(20)) \/ RLt(R(40), Get0("spine_angle"))
                 THEN <<Fault("spine_angle_issue", "high")>> ELSE <<>>
        head == IF RLt(Hundredths(landmarks[0].y), Norm(25, 100))
                THEN <<Fault("head_up", "critical")>> ELSE <<>>
    IN turn \o x_factor \o knee \o arm \o spine \o head

severity_penalty == [critical |-> 15, high |-> 10, medium |-> 5, low |-> 2]

\* GolfSwingAnalyzer.calculate_score
calculate_score(angles, faults) ==
    LET Get0(key) == GetField(angles, key, R(0))
        base_score ==
            70 + (IF Between(85, Get0("shoulder_rotation"), 95) THEN 10 ELSE 0)
               + (IF Between(40, Get0("hip_rotation"), 50) THEN 5 ELSE 0)
               + (IF RLe(R(40), Get0("x_factor")) THEN 10 ELSE 0)
               + (IF Between(140, Get0("knee_flex"), 160) THEN 5 ELSE 0)
               - ISum([i \in 1..Len(faults) |-> severity_penalty[faults[i].severity]])
    IN PyMax(R(0), PyMin(R(100), R(base_score)))

\* the output of analyze_image computed from the landmarks found in the image
golf_output(landmarks) ==
    IF landmarks = <<>>
    THEN [detected |-> FALSE, angles |-> <<>>, faults |-> <<>>, score |-> R(50)]
    ELSE IF is_golf_posture(landmarks)
    THEN LET angles == calculate_golf_angles(landmarks)
             faults == detect_swing_faults(angles, landmarks)
         IN [detected |-> TRUE, angles |-> angles, faults |-> faults,
             score |-> calculate_score(angles, faults)]
    ELSE [detected |-> FALSE, angles |-> <<>>, faults |-> <<>>, score |-> R(0),
          error |-> "Not a golf posture"]

\* the landmarks is_golf_posture and calculate_golf_angles read, of a golfer
\* with the given shoulder spread, shoulder tilt, nose height, hip height and
\* hip spread
GolfPose(spread, tilt, nose_y, hip_y, hip_spread) ==
    (0 :> [x |-> 50, y |-> nose_y]) @@
    (11 :> [x |-> 40, y |-> 30]) @@ (12 :> [x |-> 40 + spread, y |-> 30 + tilt]) @@
    (13 :> [x |-> 42, y |-> 45]) @@ (14 :> [x |-> 58, y |-> 45]) @@
    (15 :> [x |-> 50, y |-> 55]) @@ (16 :> [x |-> 50, y |-> 55]) @@
    (23 :> [x |-> 45, y |-> hip_y]) @@ (24 :> [x |-> 45 + hip_spread, y |-> hip_y]) @@
    (25 :> [x |-> 40, y |-> hip_y + 20]) @@ (26 :> [x |-> 60, y |-> hip_y + 20])

GolfPoses ==
    {GolfPose(spread, tilt, nose_y, hip_y, hip_spread) :
        spread \in {10, 35, 36, 50, 65}, tilt \in {0, 30}, nose_y \in {10, 20, 30},
        hip_y \in {55, 75}, hip_spread \in {10, 30}}

MaxGolfCalls == 2

GolfInit ==
    /\ golf_calls = 0
    /\ golf_pose = <<>>
    /\ golf_ret = None
    /\ golf_last_result = None
    /\ golf_last_hash = None
    /\ IdleExcept("golf")

\* GolfSwingAnalyzer.analyze_image on a decodable image; images are told apart
\* by the landmarks found in them
GolfAnalyzeImage ==
    /\ golf_calls < MaxGolfCalls
    /\ \E landmarks \in GolfPoses \cup {<<>>} :
          LET image_hash == [hash |-> landmarks]
              output == golf_output(landmarks)
          IN /\ golf_pose' = landmarks
             /\ IF golf_last_hash = image_hash /\ golf_last_result # None
                THEN /\ golf_ret' = golf_last_result
                     /\ UNCHANGED <<golf_last_result, golf_last_hash>>
                ELSE /\ golf_ret' = output
                     /\ golf_last_hash' = IF landmarks # <<>> THEN image_hash
                                          ELSE golf_last_hash
                     /\ golf_last_result' = IF output.detected THEN output
                                            ELSE golf_last_result
    /\ golf_calls' = golf_calls + 1
    /\ UnchangedExcept("golf")

GolfNext == GolfAnalyzeImage

SpecGolf == GolfInit /\ [][GolfNext]_vars

FaultTypes(result) == {result.faults[i].type : i \in 1..Len(result.faults)}

\* C30: every result with detected = true that analyze_image returns holds an
\* insufficient_turn fault and no over_swing fault
DetectedHasInsufficientTurn ==
    (golf_ret # None /\ golf_ret.detected) =>
        /\ "insufficient_turn" \in FaultTypes(golf_ret)
        /\ "over_swing" \notin FaultTypes(golf_ret)

\* a pose with the widest accepted shoulder spread, 0.35, is detected: its
\* shoulder_rotation is 63
WidestSpreadDetected ==
    /\ golf_ret # None /\ golf_ret.detected
    /\ golf_pose # <<>>
    /\ golf_pose[12].x - golf_pose[11].x = 35
    /\ golf_ret.angles.shoulder_rotation = R(63)
    /\ "insufficient_turn" \in FaultTypes(golf_ret)
====
